---- MODULE Spec2Model ----
(***************************************************************************)
(* Basic HotStuff simulator: the discrete-event engine, the simulated      *)
(* network, the per-replica protocol state machine, the vote collector,    *)
(* the safety rules and the pacemakers, as state machines over records.    *)
(*                                                                         *)
(* Python values are rendered as follows.  None is the empty tuple and an  *)
(* Optional[T] holding x is <<x>>.  A block hash is the tuple of the       *)
(* fields the SHA-256 digest is computed over, so equal hashes mean equal  *)
(* content.  A dict is a function over its key set; a heap is the set of   *)
(* its (time, seq, payload) entries, popped smallest (time, seq) first.    *)
(* A raised Python exception ends the call that raised it: the call's      *)
(* remaining statements do not run and the name of the exception is left   *)
(* in the "ret" field of the engine.                                       *)
(***************************************************************************)
EXTENDS Integers, Sequences, FiniteSets, TLC

\* ------------------------------------------------------------------------
\* Bounds of the model
\* ------------------------------------------------------------------------
MaxTime == 3
MaxSlowDraws == 2
MaxDropDraws == 1
MaxVotes == 4
MaxFaultOps == 2
ForkMaxTime == 6
LagMaxTime == 4
CrashMaxTime == 1
SeedPeriod == 3
ResetMaxTime == 2
MaxPaceMs == 5
MaxPaceView == 2
MaxConsecutive == 3
MaxLeaderSize == 10
MaxLeaderView == 40
MaxCommits == 2
CommitMaxTime == 0
DetMaxTime == 1
HappyMaxTime == 10
LateMaxTime == 3
MaxHashes == 3
MaxSafeView == 2
MaxQueued == 3
QueueMaxTime == 2
MaxScheduled == 4
SchedulerMaxTime == 2

\* ------------------------------------------------------------------------
\* Program constants
\* ------------------------------------------------------------------------
NumReplicas == 4
MaxIterations == 100
GenesisViewNumber == 0

Replicas == 0 .. (NumReplicas - 1)

None == << >>
Some(x) == << x >>

FaultTypes == {"NONE", "CRASH", "SILENT", "DOUBLE_VOTE", "RANDOM_DROP"}

VoteTypes == {"PREPARE_VOTE", "PRE_COMMIT_VOTE", "COMMIT_VOTE"}

Min2(a, b) == IF a <= b THEN a ELSE b
Max2(a, b) == IF a >= b THEN a ELSE b

\* dict[k] = v
DictPut(d, k, v) == [x \in (DOMAIN d) \cup {k} |-> IF x = k THEN v ELSE d[x]]

EmptyDict == [x \in {} |-> None]

RECURSIVE SeqToSet(_)
SeqToSet(sq) == IF sq = << >> THEN {} ELSE {Head(sq)} \cup SeqToSet(Tail(sq))

MapSeq(sq, Op(_)) == [i \in 1 .. Len(sq) |-> Op(sq[i])]

\* ------------------------------------------------------------------------
\* Blocks
\* ------------------------------------------------------------------------
BlockHashOf(b) ==
    << b.parent_hash, b.command, b.height, b.proposer_id, b.view_number >>

GenesisBlock ==
    [parent_hash |-> None, command |-> << 0, 0 >>, height |-> 0,
     proposer_id |-> 0, view_number |-> GenesisViewNumber]

\* BlockFactory.create_block; "cmd_<view>_<counter>" is the pair <<view, counter>>
CreateBlock(parent, command, proposer_id, view_number) ==
    [parent_hash |-> BlockHashOf(parent), command |-> command,
     height |-> parent.height + 1, proposer_id |-> proposer_id,
     view_number |-> view_number]

\* ------------------------------------------------------------------------
\* Leader scheduler
\* ------------------------------------------------------------------------
\* a rotation that starts one replica further on
LeaderOfShifted(num_replicas, view_number) == (view_number + 1) % num_replicas

\* LeaderScheduler(num_replicas).get_leader and .is_leader
LeaderOf(num_replicas, view_number) == view_number % num_replicas

IsLeaderOf(num_replicas, replica_id, view_number) ==
    LeaderOf(num_replicas, view_number) = replica_id

\* the scheduler of the engine
get_leader(view_number) == LeaderOf(NumReplicas, view_number)

is_leader(replica_id, view_number) == get_leader(view_number) = replica_id

\* ------------------------------------------------------------------------
\* Messages
\* ------------------------------------------------------------------------
PartialSignature(replica_id, message_type, view_number, block_hash) ==
    [replica_id |-> replica_id, message_type |-> message_type,
     view_number |-> view_number, block_hash |-> block_hash]

Message(id, type, sender, view, ts, target, block, qc, block_hash, psig) ==
    [message_id |-> id, message_type |-> type, sender_id |-> sender,
     view_number |-> view, timestamp |-> ts, target_id |-> target,
     block |-> block, qc |-> qc, block_hash |-> block_hash,
     partial_signature |-> psig]

\* PrepareVote.create / PreCommitVote.create / CommitVote.create
CreateVote(id, type, sender, view, block_hash, target, ts) ==
    Message(id, type, sender, view, ts, Some(target), None, None, block_hash,
            Some(PartialSignature(sender, type, view, block_hash)))

\* ------------------------------------------------------------------------
\* Message queue and simulated network
\* ------------------------------------------------------------------------
\* heap order of (delivery_time, counter, _) and (timestamp, counter, _)
EntryBefore(a, b) ==
    \/ a.time < b.time
    \/ a.time = b.time /\ a.seq < b.seq

HeapMin(heap) == CHOOSE a \in heap : \A b \in heap : a = b \/ EntryBefore(a, b)

MessageQueueInit ==
    [queues |-> [r \in Replicas |-> {}], in_flight |-> << >>,
     message_counter |-> 0]

enqueue(mq, message, sender_id, target_id, delivery_time) ==
    [mq EXCEPT
       !.message_counter = @ + 1,
       !.queues[target_id] =
           @ \cup {[time |-> delivery_time, seq |-> mq.message_counter + 1,
                    item |-> message]},
       !.in_flight =
           Append(@, [message |-> message, sender_id |-> sender_id,
                      target_id |-> target_id,
                      delivery_time |-> delivery_time])]

\* _remove_from_in_flight without the comparison of the delivery times
_remove_from_in_flight_any_time(in_flight, message, target_id, delivery_time) ==
    SelectSeq(in_flight,
              LAMBDA e : ~(/\ e.message.message_id = message.message_id
                           /\ e.target_id = target_id))

_remove_from_in_flight(in_flight, message, target_id, delivery_time) ==
    SelectSeq(in_flight,
              LAMBDA e : ~(/\ e.message.message_id = message.message_id
                           /\ e.target_id = target_id
                           /\ e.delivery_time = delivery_time))

RECURSIVE get_delivered_messages(_, _, _, _)
\* the while loop: pops the heap while its top is due; acc is "delivered"
get_delivered_messages(mq, replica_id, current_time, acc) ==
    LET queue == mq.queues[replica_id]
    IN IF queue # {} /\ HeapMin(queue).time <= current_time
       THEN LET top == HeapMin(queue)
                mq2 == [mq EXCEPT
                          !.queues[replica_id] = @ \ {top},
                          !.in_flight =
                              _remove_from_in_flight(@, top.item, replica_id,
                                                     top.time)]
            IN get_delivered_messages(mq2, replica_id, current_time,
                                      Append(acc, top))
       ELSE [mq |-> mq, delivered |-> MapSeq(acc, LAMBDA a : a.item),
             popped |-> acc]

peek_next_delivery_time(mq, replica_id) ==
    IF mq.queues[replica_id] # {} THEN HeapMin(mq.queues[replica_id]).time
    ELSE -1

\* random.Random(seed): the values a seeded generator returns are a sequence
\* the seed fixes.  A seed of the model is such a sequence, as the positions
\* of one period at which randint returns its upper bound (it returns its
\* lower bound at the others); Randint is the k-th value drawn.
Seeds == SUBSET (1 .. SeedPeriod)

Randint(seed, k, lo, hi) ==
    IF ((k - 1) % SeedPeriod) + 1 \in seed THEN hi ELSE lo

\* SimulatedNetwork: random_seed is None (a generator seeded from the system,
\* whose draws are the delays the callers are given) or Some(seed); "draws"
\* counts the calls of randint, which is the state of the generator; "slow"
\* counts the draws that came out above the minimum (the model's bound on
\* them is MaxSlowDraws)
NetworkInit(delay_min_ms, delay_max_ms, random_seed) ==
    [delay_min_ms |-> delay_min_ms, delay_max_ms |-> delay_max_ms,
     random_seed |-> random_seed, draws |-> 0,
     mq |-> MessageQueueInit, registered |-> {}, blocked |-> {}, slow |-> 0]

Delays(net) == net.delay_min_ms .. net.delay_max_ms

register_replica(net, replica_id) ==
    [net EXCEPT !.registered = @ \cup {replica_id}]

block_replica(net, replica_id) == [net EXCEPT !.blocked = @ \cup {replica_id}]

unblock_replica(net, replica_id) == [net EXCEPT !.blocked = @ \ {replica_id}]

\* send: delay is the value randint(delay_min_ms, delay_max_ms) returns; no
\* value is drawn for a blocked target
send(net, message, target_id, current_time, delay) ==
    IF target_id \in net.blocked THEN net
    ELSE LET drawn == IF net.random_seed = None THEN delay
                      ELSE Randint(net.random_seed[1], net.draws + 1,
                                   net.delay_min_ms, net.delay_max_ms)
         IN [net EXCEPT
               !.mq = enqueue(@, message, message.sender_id, target_id,
                              current_time + drawn),
               !.draws = @ + 1,
               !.slow = IF drawn > net.delay_min_ms THEN @ + 1 ELSE @]

RECURSIVE BroadcastFrom(_, _, _, _, _, _)
BroadcastFrom(net, message, sender_id, current_time, d, rid) ==
    IF rid >= NumReplicas THEN net
    ELSE IF rid \notin net.registered \/ rid = sender_id
         THEN BroadcastFrom(net, message, sender_id, current_time, d, rid + 1)
         ELSE BroadcastFrom(send(net, message, rid, current_time, d[rid]),
                            message, sender_id, current_time, d, rid + 1)

\* broadcast with include_sender = False (its only use); d[t] is the delay
\* drawn for target t
broadcast(net, message, sender_id, current_time, d) ==
    BroadcastFrom(net, message, sender_id, current_time, d, 0)

\* get_pending_messages without the test for a blocked replica
get_pending_messages_unblocked(net, replica_id, current_time) ==
    LET r == get_delivered_messages(net.mq, replica_id, current_time, << >>)
    IN [net |-> [net EXCEPT !.mq = r.mq], delivered |-> r.delivered,
        popped |-> r.popped]

get_pending_messages(net, replica_id, current_time) ==
    IF replica_id \in net.blocked
    THEN [net |-> net, delivered |-> << >>, popped |-> << >>]
    ELSE LET r == get_delivered_messages(net.mq, replica_id, current_time,
                                         << >>)
         IN [net |-> [net EXCEPT !.mq = r.mq], delivered |-> r.delivered,
             popped |-> r.popped]

get_next_delivery_time(net) ==
    LET times == {peek_next_delivery_time(net.mq, r) :
                    r \in net.registered \ net.blocked} \ {-1}
    IN IF times = {} THEN -1
       ELSE CHOOSE t \in times : \A u \in times : t <= u

NetworkReset(net) ==
    [net EXCEPT !.mq = MessageQueueInit, !.blocked = {}]

\* ------------------------------------------------------------------------
\* Clock and scheduler
\* ------------------------------------------------------------------------
SchedulerInit == [event_queue |-> {}, event_counter |-> 0]

schedule(sch, event, timestamp) ==
    [event_queue |-> sch.event_queue \cup
                       {[time |-> timestamp, seq |-> sch.event_counter + 1,
                         item |-> event]},
     event_counter |-> sch.event_counter + 1]

peek_time(sch) ==
    IF sch.event_queue = {} THEN None ELSE Some(HeapMin(sch.event_queue).time)

\* next_event that pops, of the entries with the smallest timestamp, the one
\* scheduled last
next_event_latest(sch) ==
    LET first == HeapMin(sch.event_queue)
        last == CHOOSE x \in sch.event_queue :
                  /\ x.time = first.time
                  /\ \A y \in sch.event_queue :
                       y.time = first.time => y.seq <= x.seq
    IN [entry |-> last, sch |-> [sch EXCEPT !.event_queue = @ \ {last}]]

\* next_event on a non-empty queue: the popped entry and the scheduler left
next_event(sch) ==
    [entry |-> HeapMin(sch.event_queue),
     sch |-> [sch EXCEPT !.event_queue = @ \ {HeapMin(sch.event_queue)}]]

TimeoutEvent(replica_id, view, timeout_time) ==
    [type |-> "TIMEOUT", replica_id |-> replica_id, view |-> view,
     timeout_time |-> timeout_time]

\* ------------------------------------------------------------------------
\* Quorum certificates and the vote collector
\* ------------------------------------------------------------------------
\* QuorumCertificateFactory.create_qc: the QC, or the exception raised for an
\* empty or inconsistent vote list
create_qc(votes, qc_type) ==
    IF votes = << >> THEN [error |-> "ValueError", qc |-> None]
    ELSE IF \E i \in 1 .. Len(votes) :
               \/ votes[i].block_hash # votes[1].block_hash
               \/ votes[i].view_number # votes[1].view_number
         THEN [error |-> "ValueError", qc |-> None]
         ELSE [error |-> "",
               qc |-> Some([qc_type |-> qc_type,
                            view_number |-> votes[1].view_number,
                            block_hash |-> votes[1].block_hash,
                            signatures |->
                                MapSeq(votes,
                                       LAMBDA v : v.partial_signature[1])])]

signer_count(qc) ==
    Cardinality({qc.signatures[i].replica_id : i \in 1 .. Len(qc.signatures)})

\* a collector that forms a QC one vote short of the quorum
VoteCollectorInitShort(quorum_size) ==
    [quorum_size |-> quorum_size - 1, votes |-> EmptyDict,
     formed_qcs |-> EmptyDict]

VoteCollectorInit(quorum_size) ==
    [quorum_size |-> quorum_size, votes |-> EmptyDict, formed_qcs |-> EmptyDict]

VoteKey(vote) == << vote.view_number, vote.block_hash, vote.message_type >>

\* a collector that counts a repeated vote of one sender again
add_vote_repeated(vc, vote) ==
    LET key == VoteKey(vote)
    IN IF key \in DOMAIN vc.formed_qcs THEN [vc |-> vc, qc |-> None]
       ELSE LET old == IF key \in DOMAIN vc.votes THEN vc.votes[key] ELSE << >>
                now == Append(old, vote)
                vc2 == [vc EXCEPT !.votes = DictPut(@, key, now)]
            IN IF Len(now) >= vc.quorum_size
               THEN LET qc == create_qc(now, vote.message_type).qc
                    IN [vc |-> [vc2 EXCEPT !.formed_qcs =
                                             DictPut(@, key, qc[1])],
                        qc |-> qc]
               ELSE [vc |-> vc2, qc |-> None]

\* a collector that does not remember the QCs it formed
add_vote_again(vc, vote) ==
    LET key == VoteKey(vote)
        old == IF key \in DOMAIN vc.votes THEN vc.votes[key] ELSE << >>
        vc1 == [vc EXCEPT !.votes = DictPut(@, key, old)]
        existing_senders == {old[i].sender_id : i \in 1 .. Len(old)}
    IN IF vote.sender_id \in existing_senders
       THEN [vc |-> vc1, qc |-> None]
       ELSE LET now == Append(old, vote)
                vc2 == [vc EXCEPT !.votes = DictPut(@, key, now)]
            IN IF Len(now) >= vc.quorum_size
               THEN LET qc == create_qc(now, vote.message_type).qc
                    IN [vc |-> [vc2 EXCEPT !.formed_qcs =
                                             DictPut(@, key, qc[1])],
                        qc |-> qc]
               ELSE [vc |-> vc2, qc |-> None]

\* VoteCollector.add_vote: the collector left and the value returned
add_vote(vc, vote) ==
    LET key == VoteKey(vote)
    IN IF key \in DOMAIN vc.formed_qcs THEN [vc |-> vc, qc |-> None]
       ELSE LET old == IF key \in DOMAIN vc.votes THEN vc.votes[key] ELSE << >>
                vc1 == [vc EXCEPT !.votes = DictPut(@, key, old)]
                existing_senders == {old[i].sender_id : i \in 1 .. Len(old)}
            IN IF vote.sender_id \in existing_senders
               THEN [vc |-> vc1, qc |-> None]
               ELSE LET now == Append(old, vote)
                        vc2 == [vc EXCEPT !.votes = DictPut(@, key, now)]
                    IN IF Len(now) >= vc.quorum_size
                       THEN LET qc == create_qc(now, vote.message_type).qc
                            IN [vc |-> [vc2 EXCEPT !.formed_qcs =
                                                     DictPut(@, key, qc[1])],
                                qc |-> qc]
                       ELSE [vc |-> vc2, qc |-> None]

\* clear_view that keeps the QC records of the view
clear_view_votes_only(vc, view_number) ==
    [vc EXCEPT
       !.votes = [k \in {x \in DOMAIN vc.votes : x[1] # view_number}
                    |-> vc.votes[k]]]

\* VoteCollector.clear_view
clear_view(vc, view_number) ==
    [vc EXCEPT
       !.votes = [k \in {x \in DOMAIN vc.votes : x[1] # view_number}
                    |-> vc.votes[k]],
       !.formed_qcs = [k \in {x \in DOMAIN vc.formed_qcs : x[1] # view_number}
                         |-> vc.formed_qcs[k]]]

\* ------------------------------------------------------------------------
\* Safety rules
\* ------------------------------------------------------------------------
register_block(registry, block) == DictPut(registry, BlockHashOf(block), block)

RECURSIVE ExtendsWalk(_, _, _, _, _)
\* the while loop of _extends_from
ExtendsWalk(registry, block, ancestor_hash, current_hash, visited) ==
    IF current_hash # None /\ current_hash \notin visited
    THEN IF current_hash = ancestor_hash THEN TRUE
         ELSE IF current_hash \notin DOMAIN registry
              THEN block.parent_hash = ancestor_hash
              ELSE ExtendsWalk(registry, block, ancestor_hash,
                               registry[current_hash].parent_hash,
                               visited \cup {current_hash})
    ELSE block.parent_hash = ancestor_hash

_extends_from(registry, block, ancestor_hash) ==
    ExtendsWalk(registry, block, ancestor_hash, block.parent_hash, {})

\* is_safe_node with the liveness rule comparing the views by >= instead of >
is_safe_node_geq(registry, block, justify_qc, locked_qc) ==
    IF locked_qc = None THEN TRUE
    ELSE IF _extends_from(registry, block, locked_qc[1].block_hash) THEN TRUE
    ELSE justify_qc # None
         /\ justify_qc[1].view_number >= locked_qc[1].view_number

\* justify_qc and locked_qc are Optional
is_safe_node(registry, block, justify_qc, locked_qc) ==
    IF locked_qc = None THEN TRUE
    ELSE IF _extends_from(registry, block, locked_qc[1].block_hash) THEN TRUE
    ELSE IF justify_qc # None
            /\ justify_qc[1].view_number > locked_qc[1].view_number THEN TRUE
    ELSE FALSE

\* ------------------------------------------------------------------------
\* Pacemakers
\* ------------------------------------------------------------------------
\* alpha is the fraction alpha_num / alpha_den
PacemakerInit(st) ==
    [type |-> st.pacemaker_type,
     base_timeout_ms |-> st.base_timeout_ms,
     current_timeout_ms |-> st.base_timeout_ms,
     alpha_num |-> st.adaptive_alpha_num, alpha_den |-> st.adaptive_alpha_den,
     min_timeout_ms |-> st.adaptive_min_timeout_ms,
     max_timeout_ms |-> st.adaptive_max_timeout_ms,
     current_view |-> 0, timeout_time |-> -1, timer_active |-> FALSE,
     view_start_time |-> 0, consecutive_timeouts |-> 0]

get_current_timeout(pm) ==
    IF pm.type = "ADAPTIVE" THEN pm.current_timeout_ms ELSE pm.base_timeout_ms

\* start_timer: the pacemaker left; the value returned is its timeout_time
start_timer(pm, view_number, current_time) ==
    [pm EXCEPT
       !.current_view = view_number,
       !.view_start_time = IF pm.type = "ADAPTIVE" THEN current_time ELSE @,
       !.timeout_time = current_time + get_current_timeout(pm),
       !.timer_active = TRUE]

stop_timer(pm) == [pm EXCEPT !.timer_active = FALSE, !.timeout_time = -1]

\* on_timeout: the pacemaker left; the value returned is current_view + 1
on_timeout(pm) ==
    IF pm.type = "ADAPTIVE"
    THEN [pm EXCEPT
            !.consecutive_timeouts = @ + 1,
            !.current_timeout_ms =
                Min2(@ * Min2(2 ^ (pm.consecutive_timeouts + 1), 4),
                     pm.max_timeout_ms),
            !.timer_active = FALSE]
    ELSE [pm EXCEPT !.timer_active = FALSE]

\* int(max(min, min(1.5 * (alpha * d + (1 - alpha) * t), max))); the product
\* is 3 * (num * d + (den - num) * t) / (2 * den) and int() truncates
on_view_success(pm, view_number, duration_ms) ==
    IF pm.type = "ADAPTIVE"
    THEN LET target_num == 3 * (pm.alpha_num * duration_ms
                                + (pm.alpha_den - pm.alpha_num)
                                  * pm.current_timeout_ms)
             target_den == 2 * pm.alpha_den
         IN [pm EXCEPT
               !.consecutive_timeouts = 0,
               !.current_timeout_ms =
                   IF target_num <= pm.max_timeout_ms * target_den
                   THEN IF target_num <= pm.min_timeout_ms * target_den
                        THEN pm.min_timeout_ms
                        ELSE target_num \div target_den
                   ELSE Max2(pm.min_timeout_ms, pm.max_timeout_ms)]
    ELSE pm

PacemakerReset(pm) ==
    [pm EXCEPT
       !.current_view = 0, !.current_timeout_ms = pm.base_timeout_ms,
       !.timeout_time = -1, !.timer_active = FALSE, !.view_start_time = 0,
       !.consecutive_timeouts = 0]

\* ------------------------------------------------------------------------
\* Replica
\* ------------------------------------------------------------------------
\* message_id is a fresh identifier: the creator and its creation count
ReplicaInit(replica_id, quorum_size) ==
    [replica_id |-> replica_id, quorum_size |-> quorum_size,
     current_view |-> 1, current_phase |-> "NEW_VIEW",
     locked_qc |-> None, prepare_qc |-> None, pending_block |-> None,
     committed_blocks |-> << >>, committed_block_hashes |-> {},
     last_voted_view |-> None,
     is_faulty |-> FALSE, fault_type |-> "NONE",
     block_store |-> DictPut(EmptyDict, BlockHashOf(GenesisBlock),
                             GenesisBlock),
     registry |-> register_block(EmptyDict, GenesisBlock),
     vote_collector |-> VoteCollectorInit(quorum_size),
     new_view_messages |-> << >>, command_counter |-> 0,
     last_proposed_view |-> 0, created |-> 0]

NextMessageId(rep) == << rep.replica_id, rep.created + 1 >>

ReplicaInjectFault(rep, fault_type) ==
    [rep EXCEPT !.is_faulty = TRUE, !.fault_type = fault_type]

ReplicaClearFault(rep) ==
    [rep EXCEPT !.is_faulty = FALSE, !.fault_type = "NONE"]

clear_new_view_messages(rep) == [rep EXCEPT !.new_view_messages = << >>]

add_new_view_message(rep, message) ==
    [rep EXCEPT !.new_view_messages = Append(@, message)]

ByzantineAction(replica_id, action, view, timestamp) ==
    [type |-> "BYZANTINE_ACTION", replica_id |-> replica_id,
     action |-> action, view |-> view, timestamp |-> timestamp]

\* Replica.start_view: drop is the outcome of "random.random() < 0.5", d[t]
\* the delay drawn for a send to t
start_view(rep, net, view_number, current_time, drop, d) ==
    IF rep.is_faulty /\ rep.fault_type = "CRASH"
    THEN [rep |-> rep, net |-> net, events |-> << >>]
    ELSE IF rep.is_faulty /\ rep.fault_type = "SILENT"
    THEN [rep |-> clear_new_view_messages(
                      [rep EXCEPT !.current_view = view_number,
                                  !.current_phase = "NEW_VIEW"]),
          net |-> net,
          events |-> << ByzantineAction(rep.replica_id, "SILENT_NO_NEW_VIEW",
                                        view_number, current_time) >>]
    ELSE IF rep.is_faulty /\ rep.fault_type = "RANDOM_DROP" /\ drop
    THEN [rep |-> clear_new_view_messages(
                      [rep EXCEPT !.current_view = view_number,
                                  !.current_phase = "NEW_VIEW"]),
          net |-> net,
          events |-> << ByzantineAction(rep.replica_id, "DROPPED_NEW_VIEW",
                                        view_number, current_time) >>]
    ELSE LET rep1 == clear_new_view_messages(
                         [rep EXCEPT !.current_view = view_number,
                                     !.current_phase = "NEW_VIEW",
                                     !.created = @ + 1])
             next_leader == get_leader(view_number)
             new_view_msg ==
                 Message(NextMessageId(rep), "NEW_VIEW", rep.replica_id,
                         view_number, current_time, Some(next_leader), None,
                         rep.prepare_qc, None, None)
         IN [rep |-> IF rep.replica_id = next_leader
                     THEN add_new_view_message(rep1, new_view_msg)
                     ELSE rep1,
             net |-> send(net, new_view_msg, next_leader, current_time,
                          d[next_leader]),
             events |-> << [type |-> "VIEW_CHANGE",
                            replica_id |-> rep.replica_id,
                            new_view |-> view_number,
                            timestamp |-> current_time] >>]

\* ------------------------------------------------------------------------
\* BasicHotStuffHandler: each operator gives the replica and network left and
\* the tuple the method returns
\* ------------------------------------------------------------------------
RECURSIVE SelectHighQC(_, _, _)
SelectHighQC(msgs, high_qc, highest_view) ==
    IF msgs = << >> THEN high_qc
    ELSE IF Head(msgs).qc # None /\ Head(msgs).qc[1].view_number > highest_view
         THEN SelectHighQC(Tail(msgs), Head(msgs).qc,
                           Head(msgs).qc[1].view_number)
         ELSE SelectHighQC(Tail(msgs), high_qc, highest_view)

_select_high_qc(rep) == SelectHighQC(rep.new_view_messages, None, -1)

_propose_block(rep, net, current_view, current_time, d) ==
    LET high_qc == _select_high_qc(rep)
        genesis == GenesisBlock
        parent_block ==
            IF high_qc # None
            THEN IF high_qc[1].block_hash \in DOMAIN rep.block_store
                 THEN rep.block_store[high_qc[1].block_hash]
                 ELSE genesis
            ELSE genesis
        command == << current_view, rep.command_counter + 1 >>
        new_block == CreateBlock(parent_block, command, rep.replica_id,
                                 current_view)
        prepare_msg ==
            Message(<< rep.replica_id, rep.created + 1 >>, "PREPARE",
                    rep.replica_id, current_view, current_time, None,
                    Some(new_block), high_qc, None, None)
        my_vote ==
            CreateVote(<< rep.replica_id, rep.created + 2 >>, "PREPARE_VOTE",
                       rep.replica_id, current_view, BlockHashOf(new_block),
                       rep.replica_id, current_time)
    IN [rep |-> [rep EXCEPT
                   !.command_counter = @ + 1,
                   !.created = @ + 2,
                   !.block_store = DictPut(@, BlockHashOf(new_block),
                                           new_block),
                   !.registry = register_block(@, new_block),
                   !.vote_collector = add_vote(@, my_vote).vc],
        net |-> broadcast(net, prepare_msg, rep.replica_id, current_time, d),
        events |-> << [type |-> "PROPOSAL", replica_id |-> rep.replica_id,
                       block_hash |-> BlockHashOf(new_block),
                       view |-> current_view, timestamp |-> current_time] >>,
        pending_block |-> Some(new_block), new_phase |-> Some("PREPARE")]

\* handle_new_view without the test of the view last proposed in
handle_new_view_reproposing(rep, net, message, current_view, isLeader, current_time, d) ==
    IF ~isLeader
    THEN [rep |-> rep, net |-> net, events |-> << >>,
          pending_block |-> None, new_phase |-> None]
    ELSE LET rep1 == [rep EXCEPT !.new_view_messages = Append(@, message)]
         IN IF Len(rep1.new_view_messages) >= rep1.quorum_size
            THEN _propose_block(
                     [rep1 EXCEPT !.last_proposed_view = current_view],
                     net, current_view, current_time, d)
            ELSE [rep |-> rep1, net |-> net, events |-> << >>,
                  pending_block |-> None, new_phase |-> None]

handle_new_view(rep, net, message, current_view, isLeader, current_time, d) ==
    IF ~isLeader
    THEN [rep |-> rep, net |-> net, events |-> << >>,
          pending_block |-> None, new_phase |-> None]
    ELSE LET rep1 == [rep EXCEPT !.new_view_messages = Append(@, message)]
         IN IF current_view <= rep1.last_proposed_view
            THEN [rep |-> rep1, net |-> net, events |-> << >>,
                  pending_block |-> None, new_phase |-> None]
            ELSE IF Len(rep1.new_view_messages) >= rep1.quorum_size
            THEN _propose_block(
                     [rep1 EXCEPT !.last_proposed_view = current_view],
                     net, current_view, current_time, d)
            ELSE [rep |-> rep1, net |-> net, events |-> << >>,
                  pending_block |-> None, new_phase |-> None]

VoteSend(replica_id, vote_type, block_hash, timestamp) ==
    [type |-> "VOTE_SEND", replica_id |-> replica_id, vote_type |-> vote_type,
     block_hash |-> block_hash, timestamp |-> timestamp]

\* handle_prepare without the test of the view last voted in
handle_prepare_revoting(rep, net, message, current_view, locked_qc, last_voted_view, current_time, d) ==
    LET block == message.block[1]
        rep1 == [rep EXCEPT
                   !.block_store = DictPut(@, BlockHashOf(block), block),
                   !.registry = register_block(@, block)]
        leader_id == get_leader(current_view)
        vote == CreateVote(NextMessageId(rep), "PREPARE_VOTE", rep.replica_id,
                           current_view, BlockHashOf(block), leader_id,
                           current_time)
    IN IF ~is_safe_node(rep1.registry, block, message.qc, locked_qc)
       THEN [rep |-> rep1, net |-> net, events |-> << >>,
             pending_block |-> block, new_last_voted |-> last_voted_view,
             new_phase |-> "PREPARE"]
       ELSE [rep |-> [rep1 EXCEPT !.created = @ + 1],
             net |-> send(net, vote, leader_id, current_time, d[leader_id]),
             events |-> << VoteSend(rep.replica_id, "PREPARE",
                                    BlockHashOf(block), current_time) >>,
             pending_block |-> block, new_last_voted |-> Some(current_view),
             new_phase |-> "PREPARE"]

handle_prepare(rep, net, message, current_view, locked_qc, last_voted_view, current_time, d) ==
    LET block == message.block[1]
        rep1 == [rep EXCEPT
                   !.block_store = DictPut(@, BlockHashOf(block), block),
                   !.registry = register_block(@, block)]
        leader_id == get_leader(current_view)
        vote == CreateVote(NextMessageId(rep), "PREPARE_VOTE", rep.replica_id,
                           current_view, BlockHashOf(block), leader_id,
                           current_time)
    IN IF ~is_safe_node(rep1.registry, block, message.qc, locked_qc)
       THEN [rep |-> rep1, net |-> net, events |-> << >>,
             pending_block |-> block, new_last_voted |-> last_voted_view,
             new_phase |-> "PREPARE"]
       ELSE IF last_voted_view # None /\ current_view <= last_voted_view[1]
       THEN [rep |-> rep1, net |-> net, events |-> << >>,
             pending_block |-> block, new_last_voted |-> last_voted_view,
             new_phase |-> "PREPARE"]
       ELSE [rep |-> [rep1 EXCEPT !.created = @ + 1],
             net |-> send(net, vote, leader_id, current_time, d[leader_id]),
             events |-> << VoteSend(rep.replica_id, "PREPARE",
                                    BlockHashOf(block), current_time) >>,
             pending_block |-> block, new_last_voted |-> Some(current_view),
             new_phase |-> "PREPARE"]

QCFormation(replica_id, qc_type, view, timestamp) ==
    [type |-> "QC_FORMATION", replica_id |-> replica_id, qc_type |-> qc_type,
     view |-> view, timestamp |-> timestamp]

LockUpdate(replica_id, locked_view, timestamp) ==
    [type |-> "LOCK_UPDATE", replica_id |-> replica_id,
     locked_view |-> locked_view, timestamp |-> timestamp]

\* the common body of handle_prepare_vote and handle_precommit_vote after a
\* QC formed: broadcast msg_type with the QC, count the leader's own vote
LeaderAdvance(rep, net, vc, qc, msg_type, vote_type, current_view, current_time, d) ==
    LET msg == Message(<< rep.replica_id, rep.created + 1 >>, msg_type,
                       rep.replica_id, current_view, current_time, None, None,
                       Some(qc), None, None)
        my_vote == CreateVote(<< rep.replica_id, rep.created + 2 >>,
                              vote_type, rep.replica_id, current_view,
                              qc.block_hash, rep.replica_id, current_time)
    IN [rep |-> [rep EXCEPT !.created = @ + 2,
                            !.vote_collector = add_vote(vc, my_vote).vc],
        net |-> broadcast(net, msg, rep.replica_id, current_time, d)]

handle_prepare_vote(rep, net, vote, current_view, isLeader, current_time, d) ==
    IF ~isLeader
    THEN [rep |-> rep, net |-> net, events |-> << >>, qc |-> None,
          new_phase |-> None]
    ELSE LET r == add_vote(rep.vote_collector, vote)
         IN IF r.qc # None
            THEN LET a == LeaderAdvance(rep, net, r.vc, r.qc[1], "PRE_COMMIT",
                                        "PRE_COMMIT_VOTE", current_view,
                                        current_time, d)
                 IN [rep |-> a.rep, net |-> a.net,
                     events |-> << QCFormation(rep.replica_id, "PREPARE",
                                               current_view, current_time) >>,
                     qc |-> r.qc, new_phase |-> Some("PRE_COMMIT")]
            ELSE [rep |-> [rep EXCEPT !.vote_collector = r.vc], net |-> net,
                  events |-> << >>, qc |-> None, new_phase |-> None]

handle_precommit(rep, net, message, current_view, current_time, d) ==
    LET leader_id == get_leader(current_view)
        vote == CreateVote(NextMessageId(rep), "PRE_COMMIT_VOTE",
                           rep.replica_id, current_view,
                           message.qc[1].block_hash, leader_id, current_time)
    IN [rep |-> [rep EXCEPT !.created = @ + 1],
        net |-> send(net, vote, leader_id, current_time, d[leader_id]),
        events |-> << VoteSend(rep.replica_id, "PRE_COMMIT",
                               message.qc[1].block_hash, current_time) >>,
        qc |-> message.qc, new_phase |-> "PRE_COMMIT"]

handle_precommit_vote(rep, net, vote, current_view, isLeader, current_time, d) ==
    IF ~isLeader
    THEN [rep |-> rep, net |-> net, events |-> << >>, qc |-> None,
          new_phase |-> None]
    ELSE LET r == add_vote(rep.vote_collector, vote)
         IN IF r.qc # None
            THEN LET a == LeaderAdvance(rep, net, r.vc, r.qc[1], "COMMIT",
                                        "COMMIT_VOTE", current_view,
                                        current_time, d)
                 IN [rep |-> a.rep, net |-> a.net,
                     events |-> << QCFormation(rep.replica_id, "PRE_COMMIT",
                                               current_view, current_time),
                                   LockUpdate(rep.replica_id,
                                              r.qc[1].view_number,
                                              current_time) >>,
                     qc |-> r.qc, new_phase |-> Some("COMMIT")]
            ELSE [rep |-> [rep EXCEPT !.vote_collector = r.vc], net |-> net,
                  events |-> << >>, qc |-> None, new_phase |-> None]

handle_commit(rep, net, message, current_view, current_time, d) ==
    LET leader_id == get_leader(current_view)
        vote == CreateVote(NextMessageId(rep), "COMMIT_VOTE", rep.replica_id,
                           current_view, message.qc[1].block_hash, leader_id,
                           current_time)
    IN [rep |-> [rep EXCEPT !.created = @ + 1],
        net |-> send(net, vote, leader_id, current_time, d[leader_id]),
        events |-> << LockUpdate(rep.replica_id, message.qc[1].view_number,
                                 current_time),
                      VoteSend(rep.replica_id, "COMMIT",
                               message.qc[1].block_hash, current_time) >>,
        qc |-> message.qc, new_phase |-> "COMMIT"]

RECURSIVE ExecuteWalk(_, _, _, _)
\* the while loop of _execute_branch; current_block is Optional; the result
\* is to_commit, tip first
ExecuteWalk(block_store, current_block, committed_block_hashes, to_commit) ==
    IF current_block # None
       /\ BlockHashOf(current_block[1]) \notin committed_block_hashes
    THEN IF current_block[1].height = 0 THEN to_commit
         ELSE ExecuteWalk(block_store,
                          IF current_block[1].parent_hash \in DOMAIN block_store
                          THEN Some(block_store[current_block[1].parent_hash])
                          ELSE None,
                          committed_block_hashes,
                          Append(to_commit, current_block[1]))
    ELSE to_commit

Reverse(sq) == [i \in 1 .. Len(sq) |-> sq[Len(sq) + 1 - i]]

CommitEvent(replica_id, b, timestamp) ==
    [type |-> "COMMIT", replica_id |-> replica_id,
     block_hash |-> BlockHashOf(b), height |-> b.height,
     timestamp |-> timestamp]

_execute_branch(rep, block, committed_block_hashes, current_time) ==
    LET to_commit == Reverse(ExecuteWalk(rep.block_store, Some(block),
                                         committed_block_hashes, << >>))
    IN [events |-> [i \in 1 .. Len(to_commit) |->
                      CommitEvent(rep.replica_id, to_commit[i], current_time)],
        committed_blocks |-> to_commit]

\* committed_blocks is the list the method returns in second place
handle_commit_vote(rep, net, vote, current_view, isLeader, committed_block_hashes, current_time, d) ==
    IF ~isLeader
    THEN [rep |-> rep, net |-> net, events |-> << >>,
          committed_blocks |-> << >>, new_phase |-> None]
    ELSE LET r == add_vote(rep.vote_collector, vote)
             rep1 == [rep EXCEPT !.vote_collector = r.vc]
         IN IF r.qc # None
            THEN LET decide_msg ==
                         Message(NextMessageId(rep), "DECIDE", rep.replica_id,
                                 current_view, current_time, None, None, r.qc,
                                 None, None)
                     rep2 == [rep1 EXCEPT !.created = @ + 1]
                     net2 == broadcast(net, decide_msg, rep.replica_id,
                                       current_time, d)
                     x == _execute_branch(rep,
                                          rep.block_store[r.qc[1].block_hash],
                                          committed_block_hashes, current_time)
                 IN IF r.qc[1].block_hash \in DOMAIN rep.block_store
                       /\ x.committed_blocks # << >>
                    THEN [rep |-> rep2, net |-> net2,
                          events |->
                              << QCFormation(rep.replica_id, "COMMIT",
                                             current_view, current_time) >>
                              \o x.events,
                          committed_blocks |-> x.committed_blocks,
                          new_phase |-> Some("DECIDE")]
                    ELSE [rep |-> rep2, net |-> net2, events |-> << >>,
                          committed_blocks |-> << >>, new_phase |-> None]
            ELSE [rep |-> rep1, net |-> net, events |-> << >>,
                  committed_blocks |-> << >>, new_phase |-> None]

handle_decide(rep, net, message, committed_block_hashes, current_time) ==
    LET x == _execute_branch(rep, rep.block_store[message.qc[1].block_hash],
                             committed_block_hashes, current_time)
    IN IF message.qc[1].block_hash \in DOMAIN rep.block_store
          /\ x.committed_blocks # << >>
       THEN [rep |-> rep, net |-> net, events |-> x.events,
             committed_blocks |-> x.committed_blocks,
             new_phase |-> Some("DECIDE")]
       ELSE [rep |-> rep, net |-> net, events |-> << >>,
             committed_blocks |-> << >>, new_phase |-> None]

\* ------------------------------------------------------------------------
\* Replica message handlers: the replica and network left, the events
\* returned and the exception raised ("" when the call returns)
\* ------------------------------------------------------------------------
SetPhase(rep, new_phase) ==
    IF new_phase # None THEN [rep EXCEPT !.current_phase = new_phase[1]]
    ELSE rep

_handle_new_view(rep, net, message, current_time, d) ==
    LET h == handle_new_view(rep, net, message, rep.current_view,
                             is_leader(rep.replica_id, rep.current_view),
                             current_time, d)
        rep1 == IF h.pending_block # None
                THEN [h.rep EXCEPT !.pending_block = h.pending_block,
                                   !.last_voted_view = Some(rep.current_view)]
                ELSE h.rep
    IN [rep |-> SetPhase(rep1, h.new_phase), net |-> h.net,
        events |-> h.events, raised |-> ""]

_handle_prepare(rep, net, message, current_time, d) ==
    LET h == handle_prepare(rep, net, message, rep.current_view,
                            rep.locked_qc, rep.last_voted_view, current_time,
                            d)
    IN [rep |-> [h.rep EXCEPT
                   !.pending_block = Some(h.pending_block),
                   !.last_voted_view = IF h.new_last_voted # None
                                       THEN h.new_last_voted ELSE @,
                   !.current_phase = h.new_phase],
        net |-> h.net, events |-> h.events, raised |-> ""]

_handle_prepare_vote(rep, net, vote, current_time, d) ==
    LET h == handle_prepare_vote(rep, net, vote, rep.current_view,
                                 is_leader(rep.replica_id, rep.current_view),
                                 current_time, d)
        rep1 == IF h.qc # None THEN [h.rep EXCEPT !.prepare_qc = h.qc]
                ELSE h.rep
    IN [rep |-> SetPhase(rep1, h.new_phase), net |-> h.net,
        events |-> h.events, raised |-> ""]

_handle_precommit(rep, net, message, current_time, d) ==
    LET h == handle_precommit(rep, net, message, rep.current_view,
                              current_time, d)
    IN [rep |-> [h.rep EXCEPT !.prepare_qc = h.qc,
                              !.current_phase = h.new_phase],
        net |-> h.net, events |-> h.events, raised |-> ""]

_handle_precommit_vote(rep, net, vote, current_time, d) ==
    LET h == handle_precommit_vote(rep, net, vote, rep.current_view,
                                   is_leader(rep.replica_id, rep.current_view),
                                   current_time, d)
        rep1 == IF h.qc # None THEN [h.rep EXCEPT !.locked_qc = h.qc]
                ELSE h.rep
    IN [rep |-> SetPhase(rep1, h.new_phase), net |-> h.net,
        events |-> h.events, raised |-> ""]

\* _handle_commit keeping the lock the replica had
_handle_commit_unlocked(rep, net, message, current_time, d) ==
    LET h == handle_commit(rep, net, message, rep.current_view, current_time,
                           d)
    IN [rep |-> [h.rep EXCEPT !.current_phase = h.new_phase],
        net |-> h.net, events |-> h.events, raised |-> ""]

_handle_commit(rep, net, message, current_time, d) ==
    LET h == handle_commit(rep, net, message, rep.current_view, current_time,
                           d)
    IN [rep |-> [h.rep EXCEPT !.locked_qc = h.qc,
                              !.current_phase = h.new_phase],
        net |-> h.net, events |-> h.events, raised |-> ""]

\* the value handed back in second place is a list, never None: the list is
\* appended to committed_blocks and reading its block_hash raises
_handle_commit_vote(rep, net, vote, current_time, d) ==
    LET h == handle_commit_vote(rep, net, vote, rep.current_view,
                                is_leader(rep.replica_id, rep.current_view),
                                rep.committed_block_hashes, current_time, d)
    IN [rep |-> [h.rep EXCEPT !.committed_blocks =
                                  Append(@, h.committed_blocks)],
        net |-> h.net, events |-> << >>, raised |-> "AttributeError"]

_handle_decide(rep, net, message, current_time) ==
    LET h == handle_decide(rep, net, message, rep.committed_block_hashes,
                           current_time)
    IN [rep |-> [h.rep EXCEPT !.committed_blocks =
                                  Append(@, h.committed_blocks)],
        net |-> h.net, events |-> << >>, raised |-> "AttributeError"]

\* Replica.handle_message without the test for messages of old views
handle_message_any_view(rep, net, message, current_time, drop, d) ==
    IF rep.is_faulty /\ rep.fault_type = "CRASH"
    THEN [rep |-> rep, net |-> net, events |-> << >>, raised |-> ""]
    ELSE IF rep.is_faulty /\ rep.fault_type = "SILENT"
    THEN [rep |-> rep, net |-> net,
          events |-> IF message.view_number < rep.current_view THEN << >>
                     ELSE << ByzantineAction(
                                 rep.replica_id,
                                 << "SILENT_NO_VOTE", message.message_type >>,
                                 message.view_number, current_time) >>,
          raised |-> ""]
    ELSE IF rep.is_faulty /\ rep.fault_type = "RANDOM_DROP" /\ drop
    THEN [rep |-> rep, net |-> net,
          events |-> << ByzantineAction(rep.replica_id,
                                        << "DROPPED", message.message_type >>,
                                         message.view_number, current_time) >>,
          raised |-> ""]
    ELSE CASE message.message_type = "NEW_VIEW" ->
                  _handle_new_view(rep, net, message, current_time, d)
           [] message.message_type = "PREPARE" ->
                  _handle_prepare(rep, net, message, current_time, d)
           [] message.message_type = "PREPARE_VOTE" ->
                  _handle_prepare_vote(rep, net, message, current_time, d)
           [] message.message_type = "PRE_COMMIT" ->
                  _handle_precommit(rep, net, message, current_time, d)
           [] message.message_type = "PRE_COMMIT_VOTE" ->
                  _handle_precommit_vote(rep, net, message, current_time, d)
           [] message.message_type = "COMMIT" ->
                  _handle_commit(rep, net, message, current_time, d)
           [] message.message_type = "COMMIT_VOTE" ->
                  _handle_commit_vote(rep, net, message, current_time, d)
           [] message.message_type = "DECIDE" ->
                  _handle_decide(rep, net, message, current_time)

\* Replica.handle_message
handle_message(rep, net, message, current_time, drop, d) ==
    IF rep.is_faulty /\ rep.fault_type = "CRASH"
    THEN [rep |-> rep, net |-> net, events |-> << >>, raised |-> ""]
    ELSE IF rep.is_faulty /\ rep.fault_type = "SILENT"
    THEN [rep |-> rep, net |-> net,
          events |-> IF message.view_number < rep.current_view THEN << >>
                     ELSE << ByzantineAction(
                                 rep.replica_id,
                                 << "SILENT_NO_VOTE", message.message_type >>,
                                 message.view_number, current_time) >>,
          raised |-> ""]
    ELSE IF rep.is_faulty /\ rep.fault_type = "RANDOM_DROP" /\ drop
    THEN [rep |-> rep, net |-> net,
          events |-> << ByzantineAction(rep.replica_id,
                                        << "DROPPED", message.message_type >>,
                                         message.view_number, current_time) >>,
          raised |-> ""]
    ELSE IF message.view_number < rep.current_view
    THEN [rep |-> rep, net |-> net, events |-> << >>, raised |-> ""]
    ELSE CASE message.message_type = "NEW_VIEW" ->
                  _handle_new_view(rep, net, message, current_time, d)
           [] message.message_type = "PREPARE" ->
                  _handle_prepare(rep, net, message, current_time, d)
           [] message.message_type = "PREPARE_VOTE" ->
                  _handle_prepare_vote(rep, net, message, current_time, d)
           [] message.message_type = "PRE_COMMIT" ->
                  _handle_precommit(rep, net, message, current_time, d)
           [] message.message_type = "PRE_COMMIT_VOTE" ->
                  _handle_precommit_vote(rep, net, message, current_time, d)
           [] message.message_type = "COMMIT" ->
                  _handle_commit(rep, net, message, current_time, d)
           [] message.message_type = "COMMIT_VOTE" ->
                  _handle_commit_vote(rep, net, message, current_time, d)
           [] message.message_type = "DECIDE" ->
                  _handle_decide(rep, net, message, current_time)

\* ------------------------------------------------------------------------
\* Simulation engine
\* ------------------------------------------------------------------------
quorum_size(st) == NumReplicas - st.num_faulty

RECURSIVE RegisterAll(_, _)
RegisterAll(net, i) ==
    IF i >= NumReplicas THEN net
    ELSE RegisterAll(register_replica(net, i), i + 1)

\* the replicas the constructor and reset() mark as faulty
ConfiguredFaulty(st) == (NumReplicas - st.num_faulty) .. (NumReplicas - 1)

\* SimulationEngine.__init__; pc, iteration, replica_id, messages, entries
\* and event are the position and locals of a running step(); ret is what
\* the last call returned or raised; handed lists the messages given to
\* handle_message; drops and ops count the unseeded draws that came out
\* "drop" and the fault operations made
EngineInit(st) ==
    [settings |-> st,
     current_time |-> 0,
     scheduler |-> SchedulerInit,
     network |->
         [RegisterAll(NetworkInit(st.network_delay_min_ms,
                                  st.network_delay_max_ms,
                                  st.random_seed), 0)
            EXCEPT !.blocked = IF st.fault_type = "CRASH"
                               THEN ConfiguredFaulty(st) ELSE {}],
     pacemakers |-> [i \in Replicas |-> PacemakerInit(st)],
     replicas |->
         [i \in Replicas |->
            IF i \in ConfiguredFaulty(st)
            THEN ReplicaInjectFault(ReplicaInit(i, quorum_size(st)),
                                    st.fault_type)
            ELSE ReplicaInit(i, quorum_size(st))],
     current_view |-> 1, is_running |-> FALSE, is_paused |-> FALSE,
     event_history |-> << >>, view_start_times |-> EmptyDict,
     pc |-> "idle", iteration |-> 0, replica_id |-> 0, messages |-> << >>,
     entries |-> << >>, event |-> None, ret |-> "None",
     handed |-> << >>, drops |-> 0, ops |-> 0]

\* one replica's turn of a view start: start_view, start_timer, schedule
StartReplicaView(e, i, view_number, drop, delay) ==
    LET sv == start_view(e.replicas[i], e.network, view_number,
                         e.current_time, drop, [t \in Replicas |-> delay])
        pm == start_timer(e.pacemakers[i], view_number, e.current_time)
    IN [e EXCEPT
          !.replicas[i] = sv.rep,
          !.network = sv.net,
          !.pacemakers[i] = pm,
          !.scheduler = schedule(@, TimeoutEvent(i, view_number,
                                                 pm.timeout_time),
                                 pm.timeout_time),
          !.event_history = @ \o sv.events,
          !.drops = IF e.replicas[i].is_faulty
                       /\ e.replicas[i].fault_type = "RANDOM_DROP" /\ drop
                    THEN @ + 1 ELSE @]

RECURSIVE StartViewLoop(_, _, _, _, _)
\* the loop of _start_view over the replicas; drops[i] and ds[i] are the
\* draws made in replica i's turn
StartViewLoop(e, i, view_number, drops, ds) ==
    IF i >= NumReplicas THEN e
    ELSE StartViewLoop(StartReplicaView(e, i, view_number, drops[i], ds[i]),
                       i + 1, view_number, drops, ds)

_start_view(e, view_number, drops, ds) ==
    StartViewLoop([e EXCEPT
                     !.current_view = view_number,
                     !.view_start_times = DictPut(@, view_number,
                                                  e.current_time)],
                  0, view_number, drops, ds)

start(e, drops, ds) ==
    [_start_view([e EXCEPT !.is_running = TRUE, !.is_paused = FALSE], 1,
                 drops, ds)
       EXCEPT !.ret = "events"]

\* _handle_timeout without the comparison of the views
_handle_timeout_any(e, timeout_event, drop, delay) ==
    LET i == timeout_event.replica_id
        view == timeout_event.view
        pm == on_timeout(e.pacemakers[i])
        next_view == e.pacemakers[i].current_view + 1
        event == [type |-> "TIMEOUT", timestamp |-> e.current_time,
                  replica_id |-> i, view |-> view, next_view |-> next_view]
        e1 == [e EXCEPT !.pacemakers[i] = pm,
                        !.event_history = Append(@, event)]
    IN [StartReplicaView(e1, i, next_view, drop, delay)
          EXCEPT !.ret = "event"]

\* _handle_timeout, the engine left; "ret" tells whether an event came back
_handle_timeout(e, timeout_event, drop, delay) ==
    LET i == timeout_event.replica_id
        view == timeout_event.view
        pm == on_timeout(e.pacemakers[i])
        next_view == e.pacemakers[i].current_view + 1
        event == [type |-> "TIMEOUT", timestamp |-> e.current_time,
                  replica_id |-> i, view |-> view, next_view |-> next_view]
        e1 == [e EXCEPT !.pacemakers[i] = pm,
                        !.event_history = Append(@, event)]
    IN IF e.replicas[i].current_view # view THEN [e EXCEPT !.ret = "None"]
       ELSE [StartReplicaView(e1, i, next_view, drop, delay)
               EXCEPT !.ret = "event"]

\* _on_block_committed
_on_block_committed(e, i, commit_event, drop, delay) ==
    LET view == e.replicas[i].current_view
        e1 == IF view \in DOMAIN e.view_start_times
              THEN [e EXCEPT !.pacemakers[i] =
                        stop_timer(on_view_success(
                            @, view,
                            e.current_time - e.view_start_times[view]))]
              ELSE e
        next_view == view + 1
        e2 == IF next_view > e.current_view
              THEN [e1 EXCEPT !.current_view = next_view,
                              !.view_start_times =
                                  DictPut(@, next_view, e.current_time)]
              ELSE e1
    IN IF view < e.current_view THEN e
       ELSE StartReplicaView(e2, i, next_view, drop, delay)

\* reset()
reset(e) ==
    LET st == e.settings
        net == RegisterAll(NetworkReset(e.network), 0)
    IN [e EXCEPT
          !.current_time = 0,
          !.scheduler = SchedulerInit,
          !.network = [net EXCEPT !.blocked = IF st.fault_type = "CRASH"
                                              THEN ConfiguredFaulty(st)
                                              ELSE {}],
          !.event_history = << >>,
          !.view_start_times = EmptyDict,
          !.pacemakers = [i \in Replicas |-> PacemakerReset(e.pacemakers[i])],
          !.replicas =
              [i \in Replicas |->
                 IF i \in ConfiguredFaulty(st)
                 THEN ReplicaInjectFault(ReplicaInit(i, quorum_size(st)),
                                         st.fault_type)
                 ELSE ReplicaInit(i, quorum_size(st))],
          !.current_view = 1, !.is_running = FALSE, !.is_paused = FALSE,
          !.ret = "None"]

inject_fault(e, i, fault_type) ==
    [e EXCEPT !.replicas[i] = ReplicaInjectFault(@, fault_type),
              !.network = IF fault_type = "CRASH" THEN block_replica(@, i)
                          ELSE @,
              !.ret = "None"]

clear_fault(e, i) ==
    [e EXCEPT !.replicas[i] = ReplicaClearFault(@),
              !.network = unblock_replica(@, i),
              !.ret = "None"]

\* ------------------------------------------------------------------------
\* step(): the call, the top of its for loop, and the two loops of
\* _process_message_delivery
\* ------------------------------------------------------------------------
Return(e, value) ==
    [e EXCEPT !.pc = "idle", !.ret = value, !.messages = << >>,
              !.entries = << >>, !.event = None]

Continue(e) ==
    [e EXCEPT !.pc = "loop", !.iteration = @ + 1, !.messages = << >>,
              !.entries = << >>, !.event = None]

RECURSIVE Fetch(_, _)
\* "for replica_id in range(num_replicas)" from replica i on, up to the
\* first replica that has messages pending at the current time; with none
\* left, the return of _process_message_delivery and what step() does of it
Fetch(e, i) ==
    IF i >= NumReplicas
    THEN IF e.event # None THEN Return(e, "event") ELSE Continue(e)
    ELSE LET g == get_pending_messages(e.network, i, e.current_time)
         IN IF g.delivered = << >>
            THEN Fetch([e EXCEPT !.network = g.net], i + 1)
            ELSE [e EXCEPT !.network = g.net, !.replica_id = i,
                           !.messages = g.delivered, !.entries = g.popped]

\* the time the next iteration of the loop advances the clock to, -1 if none
NextTime(e) ==
    LET next_delivery_time == get_next_delivery_time(e.network)
        next_scheduled_time == peek_time(e.scheduler)
    IN IF next_delivery_time >= 0
          /\ (next_scheduled_time = None
              \/ next_delivery_time <= next_scheduled_time[1])
       THEN next_delivery_time
       ELSE IF next_scheduled_time # None THEN next_scheduled_time[1]
       ELSE -1

_process_scheduled_event(e, drop, delay) ==
    LET r == next_event(e.scheduler)
        e1 == [e EXCEPT !.scheduler = r.sch]
    IN IF r.entry.time < e.current_time THEN Return(e1, "ValueError")
       ELSE LET e2 == _handle_timeout([e1 EXCEPT !.current_time = r.entry.time],
                                      r.entry.item, drop, delay)
            IN IF e2.ret = "event" THEN Return(e2, "event") ELSE Continue(e2)

\* one iteration of the for loop of step(), up to the call it makes
StepLoop(e, drop, delay) ==
    LET next_delivery_time == get_next_delivery_time(e.network)
        next_scheduled_time == peek_time(e.scheduler)
    IN IF e.iteration >= MaxIterations THEN Return(e, "None")
       ELSE IF next_delivery_time < 0 /\ next_scheduled_time = None
       THEN Return(e, "None")
       ELSE IF next_delivery_time >= 0
               /\ (next_scheduled_time = None
                   \/ next_delivery_time <= next_scheduled_time[1])
       THEN IF next_delivery_time < e.current_time
            THEN Return(e, "ValueError")
            ELSE Fetch([e EXCEPT !.current_time = next_delivery_time,
                                 !.pc = "deliver", !.event = None], 0)
       ELSE _process_scheduled_event(e, drop, delay)

\* step() from its call: the guard, then the first iteration of the loop
StepEnter(e, drop, delay) ==
    IF ~e.is_running THEN Return(e, "None")
    ELSE StepLoop([e EXCEPT !.pc = "loop", !.iteration = 0], drop, delay)

MessageReceive(e, message) ==
    [type |-> "MESSAGE_RECEIVE", timestamp |-> e.current_time,
     recipient_id |-> e.replica_id, sender_id |-> message.sender_id,
     message_type |-> message.message_type,
     message_id |-> message.message_id]

RECURSIVE AppendEvents(_, _, _, _, _)
\* "for msg_event in message_events"
AppendEvents(e, i, message_events, drop, delay) ==
    IF message_events = << >> THEN e
    ELSE LET e1 == [e EXCEPT !.event_history =
                                Append(@, Head(message_events))]
         IN AppendEvents(IF Head(message_events).type = "COMMIT"
                         THEN _on_block_committed(e1, i, Head(message_events),
                                                  drop, delay)
                         ELSE e1,
                         i, Tail(message_events), drop, delay)

\* the body of "for message in messages" for the first message left
\* the body of the loop of _process_message_delivery after handle_message
\* came back with h
Delivered(e, drop, d, h) ==
    LET i == e.replica_id
        message == Head(e.messages)
        e1 == [e EXCEPT
                 !.replicas[i] = h.rep,
                 !.network = h.net,
                 !.handed = Append(@, [entry |-> Head(e.entries),
                                       target_id |-> i,
                                       at |-> e.current_time,
                                       history_len |-> Len(e.event_history),
                                       raised |-> h.raised]),
                 !.drops = IF e.replicas[i].is_faulty
                              /\ e.replicas[i].fault_type = "RANDOM_DROP"
                              /\ drop
                           THEN @ + 1 ELSE @]
        event == MessageReceive(e, message)
        e2 == [e1 EXCEPT !.event_history = Append(@, event),
                         !.event = Some(event),
                         !.messages = Tail(@), !.entries = Tail(@)]
        e3 == AppendEvents(e2, i, h.events, drop,
                           d[get_leader(h.rep.current_view + 1)])
    IN IF h.raised # "" THEN Return(e1, h.raised)
       ELSE IF e3.messages # << >> THEN e3
       ELSE Fetch(e3, i + 1)

\* one round of the loop of _process_message_delivery
DeliverStep(e, drop, d) ==
    Delivered(e, drop, d,
              handle_message(e.replicas[e.replica_id], e.network,
                             Head(e.messages), e.current_time, drop, d))

\* ------------------------------------------------------------------------
\* State
\* ------------------------------------------------------------------------
\* eng is the engine; eng2 is a second engine built from the same settings
\* and seed; vc is a vote collector used on its own and returned the value
\* of each of its add_vote calls; registry is a block registry of
\* SafetyRules used on its own and safe its last is_safe_node call; pm is a
\* pacemaker used on its own; ls is a leader scheduler used on its own, with
\* the answers to its last question; mq is a message queue used on its own;
\* sch is an event scheduler used on its own and popped what its last call
\* returned, with the queue the call found
VARIABLES eng, eng2, vc, returned, registry, safe, pm, ls, mq, sch, popped

vars ==
    << eng, eng2, vc, returned, registry, safe, pm, ls, mq, sch, popped >>

\* Settings: the fields the engine reads; alpha is alpha_num / alpha_den
Settings(num_faulty, fault_type, pacemaker_type, base_timeout_ms, delay_min_ms, delay_max_ms) ==
    [num_faulty |-> num_faulty, fault_type |-> fault_type,
     pacemaker_type |-> pacemaker_type, base_timeout_ms |-> base_timeout_ms,
     network_delay_min_ms |-> delay_min_ms,
     network_delay_max_ms |-> delay_max_ms, random_seed |-> None,
     adaptive_alpha_num |-> 1, adaptive_alpha_den |-> 2,
     adaptive_min_timeout_ms |-> 1, adaptive_max_timeout_ms |-> 10]

\* the configurations of the main specification: no faulty replica, or one
\* faulty replica of each kind
MainSettings ==
    {Settings(0, "NONE", "BASELINE", 2, 0, 1)}
    \cup {Settings(1, ft, "BASELINE", 2, 0, 1) : ft \in FaultTypes}

\* the delays randint can return for a send to one of targets, within the
\* bound on draws above the minimum
DelayChoices(e, targets) ==
    LET net == e.network
    IN IF net.slow >= MaxSlowDraws \/ targets = {}
       THEN {[t \in Replicas |-> net.delay_min_ms]}
       ELSE {d \in [Replicas -> Delays(net)] :
               /\ \A t \in Replicas \ targets : d[t] = net.delay_min_ms
               /\ Cardinality({t \in targets : d[t] > net.delay_min_ms})
                    <= MaxSlowDraws - net.slow}

\* the outcomes of random.random() < 0.5 at replica i, within the bound on
\* draws that come out "drop"
DropChoices(e, i) ==
    IF e.replicas[i].is_faulty /\ e.replicas[i].fault_type = "RANDOM_DROP"
       /\ e.drops < MaxDropDraws
    THEN BOOLEAN ELSE {FALSE}

\* the replicas a handler of replica i may send to when it handles message
SendTargets(e, i, message) ==
    LET rep == e.replicas[i]
    IN IF rep.is_faulty /\ rep.fault_type \in {"CRASH", "SILENT"} THEN {}
       ELSE IF message.view_number < rep.current_view THEN {}
       ELSE IF message.message_type \in {"PREPARE", "PRE_COMMIT", "COMMIT"}
       THEN {get_leader(rep.current_view)}
       ELSE IF message.message_type = "DECIDE" THEN {}
       ELSE IF is_leader(i, rep.current_view)
       THEN (e.network.registered \ e.network.blocked) \ {i}
       ELSE {}

EngineUnused == [pc |-> "unused"]

VoteUnused == [quorum_size |-> 0]

PacemakerUnused == [type |-> "NONE"]

LeaderUnused == [num_replicas |-> 0]

QueueUnused == [message_counter |-> -1]

SchedulerUnused == [event_counter |-> -1]

OthersInit ==
    /\ vc = VoteUnused
    /\ returned = << >>
    /\ registry = EmptyDict
    /\ safe = None
    /\ pm = PacemakerUnused
    /\ ls = LeaderUnused
    /\ mq = QueueUnused
    /\ sch = SchedulerUnused
    /\ popped = None

Init ==
    /\ \E st \in MainSettings : eng = EngineInit(st)
    /\ eng2 = EngineUnused
    /\ OthersInit

\* ------------------------------------------------------------------------
\* Actions of the engine
\* ------------------------------------------------------------------------
\* start(): each replica's turn draws its own delay and drop outcome
Start ==
    /\ eng.pc = "idle"
    /\ ~eng.is_running
    /\ \E ds \in DelayChoices(eng, Replicas) :
         \E drops \in [Replicas -> BOOLEAN] :
           /\ \A i \in Replicas : drops[i] \in DropChoices(eng, i)
           /\ Cardinality({i \in Replicas : drops[i]})
                <= MaxDropDraws - eng.drops
           /\ eng' = start(eng, drops, ds)
    /\ UNCHANGED << eng2, vc, returned, registry, safe, pm, ls, mq, sch,
                    popped >>

\* the replica a timeout at the head of the scheduler belongs to
TimeoutReplica(e) ==
    IF e.scheduler.event_queue = {} THEN 0
    ELSE HeapMin(e.scheduler.event_queue).item.replica_id

\* step() is called, or a running step() goes round its loop once more; the
\* clock is not taken beyond horizon
StepTo(horizon) ==
    /\ eng.pc \in {"idle", "loop"}
    /\ ~eng.is_running \/ NextTime(eng) <= horizon
    /\ \E drop \in DropChoices(eng, TimeoutReplica(eng)) :
         \E d \in DelayChoices(eng, {0}) :
           eng' = IF eng.pc = "idle" THEN StepEnter(eng, drop, d[0])
                  ELSE StepLoop(eng, drop, d[0])
    /\ UNCHANGED << eng2, vc, returned, registry, safe, pm, ls, mq, sch,
                    popped >>

Step == StepTo(MaxTime)

DeliverMessage ==
    /\ eng.pc = "deliver"
    /\ \E drop \in DropChoices(eng, eng.replica_id) :
         \E d \in DelayChoices(eng, SendTargets(eng, eng.replica_id,
                                                Head(eng.messages))) :
           eng' = DeliverStep(eng, drop, d)
    /\ UNCHANGED << eng2, vc, returned, registry, safe, pm, ls, mq, sch,
                    popped >>

Next == Start \/ Step \/ DeliverMessage

Spec == Init /\ [][Next]_vars

\* ------------------------------------------------------------------------
\* Runs in which every replica follows the protocol and the quorum is 3
\* ------------------------------------------------------------------------
\* num_faulty = 1 with fault kind None: the quorum is 3 of 4 and the replica
\* counted as faulty behaves as the others
SpareSettings == Settings(1, "NONE", "BASELINE", 2, 0, 1)

SpareInit ==
    /\ eng = EngineInit(SpareSettings)
    /\ eng2 = EngineUnused
    /\ OthersInit

SpareSpec == SpareInit /\ [][Next]_vars

\* ------------------------------------------------------------------------
\* Runs without faults whose view timeout is longer than a view takes
\* ------------------------------------------------------------------------
\* no faulty replica, delays in 0 .. 1 and a view timeout of 9: the eight
\* hops of a view take at most 8
HappySettings == Settings(0, "NONE", "BASELINE", 9, 0, 1)

HappyInit ==
    /\ eng = EngineInit(HappySettings)
    /\ eng2 = EngineUnused
    /\ OthersInit

HappyStep == StepTo(HappyMaxTime)

HappyNext == Start \/ HappyStep \/ DeliverMessage

HappySpec == HappyInit /\ [][HappyNext]_vars

\* ------------------------------------------------------------------------
\* Runs with at most f crashed replicas whose view timeout is longer than a
\* view takes
\* ------------------------------------------------------------------------
\* no faulty replica, or one replica of kind Crash; delays in 0 .. 1 and a
\* view timeout of 9
LiveSettings ==
    {HappySettings, Settings(1, "CRASH", "BASELINE", 9, 0, 1)}

LiveInit ==
    /\ \E st \in LiveSettings : eng = EngineInit(st)
    /\ eng2 = EngineUnused
    /\ OthersInit

LiveSpec == LiveInit /\ [][HappyNext]_vars

\* ------------------------------------------------------------------------
\* Runs in which one replica drops messages and some messages are late
\* ------------------------------------------------------------------------
\* one replica of kind RandomDrop, a view timeout of 2 and delays in 0 .. 3
ForkSettings == Settings(1, "RANDOM_DROP", "BASELINE", 2, 0, 3)

\* the sends whose delay randint may return above the minimum in these runs:
\* the send replica "at" makes to replica "to" when it handles a message of
\* type "on" of view "view" (or when its timer of that view expires)
ForkSlow ==
    {[on |-> "COMMIT", view |-> 1, at |-> 0, to |-> 1, delay |-> 1],
     [on |-> "PREPARE_VOTE", view |-> 2, at |-> 2, to |-> 0, delay |-> 3],
     [on |-> "PREPARE_VOTE", view |-> 2, at |-> 2, to |-> 1, delay |-> 3],
     [on |-> "TIMEOUT", view |-> 2, at |-> 0, to |-> 3, delay |-> 1],
     [on |-> "COMMIT", view |-> 3, at |-> 0, to |-> 3, delay |-> 1]}

\* the message whose handling random.random() < 0.5 may drop in these runs
ForkDrop == {[on |-> "PREPARE", view |-> 2, at |-> 3]}

\* the delays randint may return for the sends replica i makes when it
\* handles a message of type on and view view, given the slow sends
SlowDelays(slow, e, on, view, i) ==
    {d \in [Replicas -> Delays(e.network)] :
       \A t \in Replicas :
         \/ d[t] = e.network.delay_min_ms
         \/ [on |-> on, view |-> view, at |-> i, to |-> t, delay |-> d[t]]
              \in slow}

ForkDelays(e, on, view, i) == SlowDelays(ForkSlow, e, on, view, i)

ForkDrops(e, on, view, i) ==
    IF e.replicas[i].is_faulty /\ e.replicas[i].fault_type = "RANDOM_DROP"
       /\ [on |-> on, view |-> view, at |-> i] \in ForkDrop
    THEN BOOLEAN ELSE {FALSE}

\* the view of the timeout at the head of the scheduler
TimeoutView(e) ==
    IF e.scheduler.event_queue = {} THEN 0
    ELSE HeapMin(e.scheduler.event_queue).item.view

ForkInit ==
    /\ eng = EngineInit(ForkSettings)
    /\ eng2 = EngineUnused
    /\ OthersInit

ForkStart ==
    /\ eng.pc = "idle"
    /\ ~eng.is_running
    /\ eng' = start(eng, [i \in Replicas |-> FALSE],
                    [i \in Replicas |-> eng.network.delay_min_ms])
    /\ UNCHANGED << eng2, vc, returned, registry, safe, pm, ls, mq, sch,
                    popped >>

ForkStep ==
    /\ eng.pc \in {"idle", "loop"}
    /\ ~eng.is_running \/ NextTime(eng) <= ForkMaxTime
    /\ \E d \in ForkDelays(eng, "TIMEOUT", TimeoutView(eng),
                            TimeoutReplica(eng)) :
         LET delay == d[get_leader(TimeoutView(eng) + 1)]
         IN eng' = IF eng.pc = "idle" THEN StepEnter(eng, FALSE, delay)
                   ELSE StepLoop(eng, FALSE, delay)
    /\ UNCHANGED << eng2, vc, returned, registry, safe, pm, ls, mq, sch,
                    popped >>

ForkDeliver ==
    /\ eng.pc = "deliver"
    /\ LET message == Head(eng.messages)
       IN \E drop \in ForkDrops(eng, message.message_type,
                                 message.view_number, eng.replica_id) :
            \E d \in ForkDelays(eng, message.message_type,
                                 message.view_number, eng.replica_id) :
              eng' = DeliverStep(eng, drop, d)
    /\ UNCHANGED << eng2, vc, returned, registry, safe, pm, ls, mq, sch,
                    popped >>

ForkNext == ForkStart \/ ForkStep \/ ForkDeliver

ForkSpec == ForkInit /\ [][ForkNext]_vars

\* ------------------------------------------------------------------------
\* Runs in which a crashed replica has its fault cleared
\* ------------------------------------------------------------------------
\* one replica of kind Crash, a view timeout of 1 and delays in 0 .. 2
LagSettings == Settings(1, "CRASH", "BASELINE", 1, 0, 2)

\* the sends whose delay randint may return above the minimum in these runs
LagSlow ==
    {[on |-> "TIMEOUT", view |-> 1, at |-> 1, to |-> 2, delay |-> 1],
     [on |-> "PRE_COMMIT_VOTE", view |-> 2, at |-> 2, to |-> 3, delay |-> 2],
     [on |-> "PREPARE_VOTE", view |-> 2, at |-> 2, to |-> 3, delay |-> 2],
     [on |-> "TIMEOUT", view |-> 3, at |-> 1, to |-> 0, delay |-> 1]}

LagInit ==
    /\ eng = EngineInit(LagSettings)
    /\ eng2 = EngineUnused
    /\ OthersInit

LagStep ==
    /\ eng.pc \in {"idle", "loop"}
    /\ ~eng.is_running \/ NextTime(eng) <= LagMaxTime
    /\ \E d \in SlowDelays(LagSlow, eng, "TIMEOUT", TimeoutView(eng),
                            TimeoutReplica(eng)) :
         LET delay == d[get_leader(TimeoutView(eng) + 1)]
         IN eng' = IF eng.pc = "idle" THEN StepEnter(eng, FALSE, delay)
                   ELSE StepLoop(eng, FALSE, delay)
    /\ UNCHANGED << eng2, vc, returned, registry, safe, pm, ls, mq, sch,
                    popped >>

LagDeliver ==
    /\ eng.pc = "deliver"
    /\ LET message == Head(eng.messages)
       IN \E d \in SlowDelays(LagSlow, eng, message.message_type,
                               message.view_number, eng.replica_id) :
            eng' = DeliverStep(eng, FALSE, d)
    /\ UNCHANGED << eng2, vc, returned, registry, safe, pm, ls, mq, sch,
                    popped >>

\* clear_fault(i) is called between two calls of step()
ClearFault ==
    /\ eng.pc = "idle"
    /\ eng.is_running
    /\ eng.ops < MaxFaultOps
    /\ \E i \in Replicas :
         /\ eng.replicas[i].is_faulty
         /\ eng' = [clear_fault(eng, i) EXCEPT !.ops = @ + 1]
    /\ UNCHANGED << eng2, vc, returned, registry, safe, pm, ls, mq, sch,
                    popped >>

LagNext == ForkStart \/ LagStep \/ LagDeliver \/ ClearFault

LagSpec == LagInit /\ [][LagNext]_vars

\* ------------------------------------------------------------------------
\* Runs in which a Prepare arrives after the timeout of its view
\* ------------------------------------------------------------------------
\* no replica misbehaves, a view timeout of 2 and delays in 0 .. 3
LateSettings == Settings(1, "NONE", "BASELINE", 2, 0, 3)

\* the sends whose delay randint may return above the minimum in these runs
LateSlow ==
    {[on |-> "NEW_VIEW", view |-> 1, at |-> 1, to |-> 2, delay |-> 3],
     [on |-> "NEW_VIEW", view |-> 1, at |-> 1, to |-> 0, delay |-> 1]}

LateInit ==
    /\ eng = EngineInit(LateSettings)
    /\ eng2 = EngineUnused
    /\ OthersInit

LateStep ==
    /\ eng.pc \in {"idle", "loop"}
    /\ ~eng.is_running \/ NextTime(eng) <= LateMaxTime
    /\ \E d \in SlowDelays(LateSlow, eng, "TIMEOUT", TimeoutView(eng),
                            TimeoutReplica(eng)) :
         LET delay == d[get_leader(TimeoutView(eng) + 1)]
         IN eng' = IF eng.pc = "idle" THEN StepEnter(eng, FALSE, delay)
                   ELSE StepLoop(eng, FALSE, delay)
    /\ UNCHANGED << eng2, vc, returned, registry, safe, pm, ls, mq, sch,
                    popped >>

LateDeliver ==
    /\ eng.pc = "deliver"
    /\ LET message == Head(eng.messages)
       IN \E d \in SlowDelays(LateSlow, eng, message.message_type,
                               message.view_number, eng.replica_id) :
            eng' = DeliverStep(eng, FALSE, d)
    /\ UNCHANGED << eng2, vc, returned, registry, safe, pm, ls, mq, sch,
                    popped >>

LateNext == ForkStart \/ LateStep \/ LateDeliver

LateSpec == LateInit /\ [][LateNext]_vars

\* ------------------------------------------------------------------------
\* Runs in which a replica of kind Silent is handed a message of a view it
\* has left
\* ------------------------------------------------------------------------
\* one replica of kind Silent, a view timeout of 2 and delays in 0 .. 3
SilentSettings == Settings(1, "SILENT", "BASELINE", 2, 0, 3)

\* the sends whose delay randint may return above the minimum in these runs
SilentSlow ==
    {[on |-> "NEW_VIEW", view |-> 1, at |-> 1, to |-> 3, delay |-> 3],
     [on |-> "NEW_VIEW", view |-> 1, at |-> 1, to |-> 0, delay |-> 1]}

SilentInit ==
    /\ eng = EngineInit(SilentSettings)
    /\ eng2 = EngineUnused
    /\ OthersInit

SilentStep ==
    /\ eng.pc \in {"idle", "loop"}
    /\ ~eng.is_running \/ NextTime(eng) <= LateMaxTime
    /\ \E d \in SlowDelays(SilentSlow, eng, "TIMEOUT", TimeoutView(eng),
                            TimeoutReplica(eng)) :
         LET delay == d[get_leader(TimeoutView(eng) + 1)]
         IN eng' = IF eng.pc = "idle" THEN StepEnter(eng, FALSE, delay)
                   ELSE StepLoop(eng, FALSE, delay)
    /\ UNCHANGED << eng2, vc, returned, registry, safe, pm, ls, mq, sch,
                    popped >>

SilentDeliver ==
    /\ eng.pc = "deliver"
    /\ LET message == Head(eng.messages)
       IN \E d \in SlowDelays(SilentSlow, eng, message.message_type,
                               message.view_number, eng.replica_id) :
            eng' = DeliverStep(eng, FALSE, d)
    /\ UNCHANGED << eng2, vc, returned, registry, safe, pm, ls, mq, sch,
                    popped >>

SilentNext == ForkStart \/ SilentStep \/ SilentDeliver

SilentSpec == SilentInit /\ [][SilentNext]_vars

\* ------------------------------------------------------------------------
\* Runs in which a replica is crashed or has its fault cleared
\* ------------------------------------------------------------------------
\* inject_fault(i, CRASH) is called between two calls of step()
InjectCrash ==
    /\ eng.pc = "idle"
    /\ eng.is_running
    /\ eng.ops < MaxFaultOps
    /\ \E i \in Replicas :
         /\ ~eng.replicas[i].is_faulty
         /\ eng' = [inject_fault(eng, i, "CRASH") EXCEPT !.ops = @ + 1]
    /\ UNCHANGED << eng2, vc, returned, registry, safe, pm, ls, mq, sch,
                    popped >>

CrashStep ==
    /\ eng.pc \in {"idle", "loop"}
    /\ ~eng.is_running \/ NextTime(eng) <= CrashMaxTime
    /\ \E d \in SlowDelays(LagSlow, eng, "TIMEOUT", TimeoutView(eng),
                            TimeoutReplica(eng)) :
         LET delay == d[get_leader(TimeoutView(eng) + 1)]
         IN eng' = IF eng.pc = "idle" THEN StepEnter(eng, FALSE, delay)
                   ELSE StepLoop(eng, FALSE, delay)
    /\ UNCHANGED << eng2, vc, returned, registry, safe, pm, ls, mq, sch,
                    popped >>

CrashNext ==
    ForkStart \/ CrashStep \/ LagDeliver \/ ClearFault \/ InjectCrash

CrashSpec == LagInit /\ [][CrashNext]_vars

\* ------------------------------------------------------------------------
\* Runs with inject_fault of any kind, clear_fault and reset
\* ------------------------------------------------------------------------
\* inject_fault(i, fault_type) is called between two calls of step()
InjectFault ==
    /\ eng.pc = "idle"
    /\ eng.ops < MaxFaultOps
    /\ \E i \in Replicas : \E fault_type \in FaultTypes :
         eng' = [inject_fault(eng, i, fault_type) EXCEPT !.ops = @ + 1]
    /\ UNCHANGED << eng2, vc, returned, registry, safe, pm, ls, mq, sch,
                    popped >>

\* reset() is called between two calls of step()
ResetEngine ==
    /\ eng.pc = "idle"
    /\ eng.ops < MaxFaultOps
    /\ eng' = [reset(eng) EXCEPT !.ops = @ + 1]
    /\ UNCHANGED << eng2, vc, returned, registry, safe, pm, ls, mq, sch,
                    popped >>

FaultNext ==
    ForkStart \/ CrashStep \/ LagDeliver \/ InjectFault \/ ClearFault \/ ResetEngine

FaultSpec == LagInit /\ [][FaultNext]_vars

\* ------------------------------------------------------------------------
\* Two engines built from equal settings and seed
\* ------------------------------------------------------------------------
\* one faulty replica of each kind, or none; a view timeout of 1; delays in
\* 0 .. 1 drawn by a generator with a seed, which returns the same delays in
\* both engines
DetSettings ==
    {[st EXCEPT !.random_seed = Some(seed)] :
       st \in {Settings(0, "NONE", "BASELINE", 1, 0, 1)}
                \cup {Settings(1, ft, "BASELINE", 1, 0, 1) : ft \in FaultTypes},
       seed \in Seeds}

MinDelays(e) == [t \in Replicas |-> e.network.delay_min_ms]

\* the outcomes of start(): one draw of random.random() per replica of kind
\* RandomDrop
Starts(e) ==
    {start(e, drops, MinDelays(e)) :
       drops \in {dr \in [Replicas -> BOOLEAN] :
                    /\ \A i \in Replicas : dr[i] \in DropChoices(e, i)
                    /\ Cardinality({i \in Replicas : dr[i]})
                         <= MaxDropDraws - e.drops}}

RECURSIVE StepRuns(_)
\* the engines a running step() can return with
StepRuns(e) ==
    IF e.pc = "idle" THEN {e}
    ELSE IF e.pc = "loop"
    THEN UNION {StepRuns(StepLoop(e, drop, e.network.delay_min_ms)) :
                  drop \in DropChoices(e, TimeoutReplica(e))}
    ELSE UNION {StepRuns(DeliverStep(e, drop, MinDelays(e))) :
                  drop \in DropChoices(e, e.replica_id)}

\* the outcomes of one call of step()
Steps(e) ==
    UNION {StepRuns(StepEnter(e, drop, e.network.delay_min_ms)) :
             drop \in DropChoices(e, TimeoutReplica(e))}

DetInit ==
    /\ \E st \in DetSettings :
         /\ eng = EngineInit(st)
         /\ eng2 = EngineInit(st)
    /\ OthersInit

\* start() is called on both engines
DetStart ==
    /\ ~eng.is_running
    /\ ~eng2.is_running
    /\ eng' \in Starts(eng)
    /\ eng2' \in Starts(eng2)
    /\ UNCHANGED << vc, returned, registry, safe, pm, ls, mq, sch, popped >>

\* step() is called on both engines
DetStep ==
    /\ eng.is_running
    /\ eng2.is_running
    /\ NextTime(eng) <= DetMaxTime
    /\ NextTime(eng2) <= DetMaxTime
    /\ eng' \in Steps(eng)
    /\ eng2' \in Steps(eng2)
    /\ UNCHANGED << vc, returned, registry, safe, pm, ls, mq, sch, popped >>

DetNext == DetStart \/ DetStep

DetSpec == DetInit /\ [][DetNext]_vars

\* ------------------------------------------------------------------------
\* An engine that is run, reset and run again (eng), beside an engine built
\* from the same settings and seed that is only run (eng2)
\* ------------------------------------------------------------------------
\* no faulty replica, or one of kind Crash; a view timeout of 2; delays in
\* 0 .. 1 drawn by a generator with a seed
ResetSettings ==
    {[st EXCEPT !.random_seed = Some(seed)] :
       st \in {Settings(0, "NONE", "BASELINE", 2, 0, 1),
               Settings(1, "CRASH", "BASELINE", 2, 0, 1)},
       seed \in Seeds}

ResetInit ==
    /\ \E st \in ResetSettings :
         /\ eng = EngineInit(st)
         /\ eng2 = EngineInit(st)
    /\ OthersInit

\* the first run: start() is called on eng
FirstStart ==
    /\ eng.ops = 0
    /\ ~eng.is_running
    /\ eng' \in Starts(eng)
    /\ UNCHANGED << eng2, vc, returned, registry, safe, pm, ls, mq, sch,
                    popped >>

\* the first run: step() is called on eng
FirstStep ==
    /\ eng.ops = 0
    /\ eng.is_running
    /\ NextTime(eng) <= ResetMaxTime
    /\ eng' \in Steps(eng)
    /\ UNCHANGED << eng2, vc, returned, registry, safe, pm, ls, mq, sch,
                    popped >>

\* reset() is called on eng
Reset ==
    /\ eng.ops = 0
    /\ eng' = [reset(eng) EXCEPT !.ops = 1]
    /\ UNCHANGED << eng2, vc, returned, registry, safe, pm, ls, mq, sch,
                    popped >>

\* the replay: start() is called on both engines
ReplayStart ==
    /\ eng.ops = 1
    /\ DetStart

\* the replay: step() is called on both engines
ReplayStep ==
    /\ eng.ops = 1
    /\ eng.is_running
    /\ eng2.is_running
    /\ NextTime(eng) <= ResetMaxTime
    /\ NextTime(eng2) <= ResetMaxTime
    /\ eng' \in Steps(eng)
    /\ eng2' \in Steps(eng2)
    /\ UNCHANGED << vc, returned, registry, safe, pm, ls, mq, sch, popped >>

ResetNext == FirstStart \/ FirstStep \/ Reset \/ ReplayStart \/ ReplayStep

ResetSpec == ResetInit /\ [][ResetNext]_vars

\* ------------------------------------------------------------------------
\* A vote collector used on its own
\* ------------------------------------------------------------------------
VoteBlocks ==
    {CreateBlock(GenesisBlock, << 1, c >>, get_leader(1), 1) : c \in {1, 2}}

\* the (view, block_hash, phase) keys votes are cast for
VoteKeys ==
    {<< 1, BlockHashOf(b), "PREPARE_VOTE" >> : b \in VoteBlocks}
    \cup {<< 2, BlockHashOf(b), "COMMIT_VOTE" >> :
             b \in {CreateBlock(GenesisBlock, << 1, 1 >>, get_leader(1), 1)}}

VoteInit ==
    /\ eng = EngineUnused
    /\ eng2 = EngineUnused
    /\ \E st \in {SpareSettings, HappySettings} :
         vc = VoteCollectorInit(quorum_size(st))
    /\ returned = << >>
    /\ registry = EmptyDict
    /\ safe = None
    /\ pm = PacemakerUnused
    /\ ls = LeaderUnused
    /\ mq = QueueUnused
    /\ sch = SchedulerUnused
    /\ popped = None

\* one add_vote call with a vote made by XVote.create
AddVote ==
    /\ Len(returned) < MaxVotes
    /\ \E sender \in Replicas : \E key \in VoteKeys :
         LET vote == CreateVote(<< sender, Len(returned) >>, key[3], sender,
                                key[1], key[2], get_leader(key[1]), 0)
             r == add_vote(vc, vote)
         IN /\ vc' = r.vc
            /\ returned' = Append(returned, [vote |-> vote, qc |-> r.qc])
    /\ UNCHANGED << eng, eng2, registry, safe, pm, ls, mq, sch, popped >>

VoteNext == AddVote

VoteSpec == VoteInit /\ [][VoteNext]_vars

\* ------------------------------------------------------------------------
\* A vote collector whose views are cleared
\* ------------------------------------------------------------------------
\* votes of two views for one block, and of one view for two blocks; the
\* replicas that vote; "returned" holds the last call only: the vote and the
\* value returned of add_vote, or the view and the collector found of
\* clear_view
ClearKeys ==
    {<< 1, BlockHashOf(b), "PREPARE_VOTE" >> : b \in VoteBlocks}
    \cup {<< 2, BlockHashOf(b), "PREPARE_VOTE" >> :
             b \in {CreateBlock(GenesisBlock, << 1, 1 >>, get_leader(1), 1)}}

ClearSenders == {0, 1, 2}

ClearInit ==
    /\ vc = VoteCollectorInit(quorum_size(SpareSettings))
    /\ returned = << >>
    /\ eng = EngineUnused
    /\ eng2 = EngineUnused
    /\ registry = EmptyDict
    /\ safe = None
    /\ pm = PacemakerUnused
    /\ ls = LeaderUnused
    /\ mq = QueueUnused
    /\ sch = SchedulerUnused
    /\ popped = None

\* add_vote(vote)
AddViewVote ==
    /\ \E sender \in ClearSenders : \E key \in ClearKeys :
         LET vote == CreateVote(<< sender, key[1] >>, key[3], sender, key[1],
                                key[2], get_leader(key[1]), 0)
             r == add_vote(vc, vote)
         IN /\ vc' = r.vc
            /\ returned' = << [call |-> "add_vote", vote |-> vote,
                               qc |-> r.qc, found |-> vc] >>
    /\ UNCHANGED << eng, eng2, registry, safe, pm, ls, mq, sch, popped >>

\* clear_view(view_number)
ClearView ==
    /\ \E view_number \in {key[1] : key \in ClearKeys} :
         /\ vc' = clear_view(vc, view_number)
         /\ returned' = << [call |-> "clear_view",
                            view_number |-> view_number, found |-> vc] >>
    /\ UNCHANGED << eng, eng2, registry, safe, pm, ls, mq, sch, popped >>

ClearNext == AddViewVote \/ ClearView

ClearSpec == ClearInit /\ [][ClearNext]_vars

\* ------------------------------------------------------------------------
\* SafetyRules used on its own, over every registry of a few block hashes
\* ------------------------------------------------------------------------
\* block hashes are opaque here: a registry may hold any parent links,
\* cycles included
Hashes == {<< n >> : n \in 1 .. MaxHashes}

SafeBlock(parent_hash) == [GenesisBlock EXCEPT !.parent_hash = parent_hash]

SafeQC(view_number, block_hash) ==
    [qc_type |-> "PREPARE_VOTE", view_number |-> view_number,
     block_hash |-> block_hash, signatures |-> << >>]

SafeQCs == {SafeQC(v, h) : v \in 1 .. MaxSafeView, h \in Hashes}

Registries ==
    UNION {[known -> {SafeBlock(p) : p \in Hashes \cup {None}}] :
             known \in SUBSET Hashes}

SafeInit ==
    /\ eng = EngineUnused
    /\ eng2 = EngineUnused
    /\ vc = VoteUnused
    /\ returned = << >>
    /\ registry \in Registries
    /\ safe = None
    /\ pm = PacemakerUnused
    /\ ls = LeaderUnused
    /\ mq = QueueUnused
    /\ sch = SchedulerUnused
    /\ popped = None

\* one is_safe_node call
IsSafeNode ==
    /\ safe = None
    /\ \E p \in Hashes \cup {None} :
         \E justify_qc \in {None} \cup {Some(q) : q \in SafeQCs} :
           \E locked_qc \in {None} \cup {Some(q) : q \in SafeQCs} :
             safe' = Some([block |-> SafeBlock(p), justify_qc |-> justify_qc,
                           locked_qc |-> locked_qc,
                           result |-> is_safe_node(registry, SafeBlock(p),
                                                   justify_qc, locked_qc)])
    /\ UNCHANGED << eng, eng2, vc, returned, registry, pm, ls, mq, sch,
                    popped >>

SafeNext == IsSafeNode

SafeSpec == SafeInit /\ [][SafeNext]_vars

\* ------------------------------------------------------------------------
\* Runs in which the engine is given COMMIT events
\* ------------------------------------------------------------------------
\* in _process_message_delivery, the body of "for msg_event in
\* message_events" for a COMMIT event of replica i for its pending block:
\* the event is recorded and _on_block_committed is called
OnBlockCommitted ==
    /\ eng.pc = "idle"
    /\ eng.is_running
    /\ eng.ops < MaxCommits
    /\ \E i \in Replicas : \E d \in DelayChoices(eng, {0}) :
         /\ eng.replicas[i].pending_block # None
         /\ eng' = [AppendEvents(eng, i,
                                 << CommitEvent(i, eng.replicas[i].pending_block[1],
                                                eng.current_time) >>,
                                 FALSE, d[0])
                      EXCEPT !.ops = @ + 1]
    /\ UNCHANGED << eng2, vc, returned, registry, safe, pm, ls, mq, sch,
                    popped >>

CommitStep == StepTo(CommitMaxTime)

CommitNext == Start \/ CommitStep \/ DeliverMessage \/ OnBlockCommitted

CommitSpec == HappyInit /\ [][CommitNext]_vars

\* ------------------------------------------------------------------------
\* An adaptive pacemaker used on its own
\* ------------------------------------------------------------------------
\* the settings of an adaptive pacemaker: a base timeout above 0 and bounds
\* with 0 < adaptive_min_timeout_ms <= adaptive_max_timeout_ms
PaceSettings ==
    {[Settings(0, "NONE", "ADAPTIVE", base, 0, 1)
        EXCEPT !.adaptive_min_timeout_ms = b[1],
               !.adaptive_max_timeout_ms = b[2]] :
       base \in 1 .. MaxPaceMs,
       b \in {c \in (1 .. MaxPaceMs) \X (1 .. MaxPaceMs) : c[1] <= c[2]}}

PaceInit ==
    /\ eng = EngineUnused
    /\ eng2 = EngineUnused
    /\ vc = VoteUnused
    /\ returned = << >>
    /\ registry = EmptyDict
    /\ safe = None
    /\ \E st \in PaceSettings : pm = PacemakerInit(st)
    /\ ls = LeaderUnused
    /\ mq = QueueUnused
    /\ sch = SchedulerUnused
    /\ popped = None

StartTimer ==
    /\ \E view_number \in 1 .. MaxPaceView : \E current_time \in {0, MaxPaceMs} :
         pm' = start_timer(pm, view_number, current_time)
    /\ UNCHANGED << eng, eng2, vc, returned, registry, safe, ls, mq, sch,
                    popped >>

OnTimeout ==
    /\ pm.consecutive_timeouts < MaxConsecutive
    /\ pm' = on_timeout(pm)
    /\ UNCHANGED << eng, eng2, vc, returned, registry, safe, ls, mq, sch,
                    popped >>

OnViewSuccess ==
    /\ \E view_number \in 1 .. MaxPaceView : \E duration_ms \in 0 .. MaxPaceMs :
         pm' = on_view_success(pm, view_number, duration_ms)
    /\ UNCHANGED << eng, eng2, vc, returned, registry, safe, ls, mq, sch,
                    popped >>

PaceReset ==
    /\ pm' = PacemakerReset(pm)
    /\ UNCHANGED << eng, eng2, vc, returned, registry, safe, ls, mq, sch,
                    popped >>

PaceNext == StartTimer \/ OnTimeout \/ OnViewSuccess \/ PaceReset

PaceSpec == PaceInit /\ [][PaceNext]_vars

\* ------------------------------------------------------------------------
\* A leader scheduler used on its own
\* ------------------------------------------------------------------------
\* the numbers of replicas Settings accepts: at least 4 and of the form 3f + 1
LeaderSizes == {n \in 4 .. MaxLeaderSize : (n - 1) % 3 = 0}

LeaderInit ==
    /\ eng = EngineUnused
    /\ eng2 = EngineUnused
    /\ vc = VoteUnused
    /\ returned = << >>
    /\ registry = EmptyDict
    /\ safe = None
    /\ pm = PacemakerUnused
    /\ \E n \in LeaderSizes : ls = [num_replicas |-> n, asked |-> None]
    /\ mq = QueueUnused
    /\ sch = SchedulerUnused
    /\ popped = None

\* get_leader(view_number) is called, and is_leader(r, view_number) for every
\* replica r
GetLeader ==
    /\ \E view_number \in 0 .. MaxLeaderView :
         ls' = [ls EXCEPT !.asked =
                  Some([view_number |-> view_number,
                        leader |-> LeaderOf(ls.num_replicas, view_number),
                        is_leader |-> [r \in 0 .. ls.num_replicas - 1 |->
                                         IsLeaderOf(ls.num_replicas, r,
                                                    view_number)]])]
    /\ UNCHANGED << eng, eng2, vc, returned, registry, safe, pm, mq, sch,
                    popped >>

LeaderNext == GetLeader

LeaderSpec == LeaderInit /\ [][LeaderNext]_vars

\* ------------------------------------------------------------------------
\* A message queue used on its own
\* ------------------------------------------------------------------------
\* the messages, as far as the queue reads them: message_id is the first
\* eight digits of a uuid4, so two messages may share it
QueueMessages == [message_id : {1, 2}, sender_id : {0}]

QueueTargets == {0, 1}

QueueInit ==
    /\ mq = MessageQueueInit
    /\ eng = EngineUnused
    /\ eng2 = EngineUnused
    /\ vc = VoteUnused
    /\ returned = << >>
    /\ registry = EmptyDict
    /\ safe = None
    /\ pm = PacemakerUnused
    /\ ls = LeaderUnused
    /\ sch = SchedulerUnused
    /\ popped = None

\* enqueue(message, sender_id, target_id, delivery_time)
Enqueue ==
    /\ mq.message_counter < MaxQueued
    /\ \E message \in QueueMessages : \E target_id \in QueueTargets :
         \E delivery_time \in 0 .. QueueMaxTime :
           mq' = enqueue(mq, message, message.sender_id, target_id,
                         delivery_time)
    /\ UNCHANGED << eng, eng2, vc, returned, registry, safe, pm, ls, sch,
                    popped >>

\* get_delivered_messages(replica_id, current_time)
GetDelivered ==
    /\ \E replica_id \in QueueTargets : \E current_time \in 0 .. QueueMaxTime :
         mq' = get_delivered_messages(mq, replica_id, current_time, << >>).mq
    /\ UNCHANGED << eng, eng2, vc, returned, registry, safe, pm, ls, sch,
                    popped >>

\* clear()
QueueClear ==
    /\ mq' = MessageQueueInit
    /\ UNCHANGED << eng, eng2, vc, returned, registry, safe, pm, ls, sch,
                    popped >>

QueueNext == Enqueue \/ GetDelivered \/ QueueClear

QueueSpec == QueueInit /\ [][QueueNext]_vars

\* ------------------------------------------------------------------------
\* An event scheduler used on its own
\* ------------------------------------------------------------------------
\* the events scheduled; popped.log lists the [time, item] pairs in the
\* order of the schedule calls made since the scheduler was built or cleared
SchedulerEvents == {"a", "b"}

SchedulerInitAlone ==
    /\ sch = SchedulerInit
    /\ popped = [call |-> "none", value |-> None, found |-> {}, log |-> << >>]
    /\ eng = EngineUnused
    /\ eng2 = EngineUnused
    /\ vc = VoteUnused
    /\ returned = << >>
    /\ registry = EmptyDict
    /\ safe = None
    /\ pm = PacemakerUnused
    /\ ls = LeaderUnused
    /\ mq = QueueUnused

\* schedule(event, timestamp)
Schedule ==
    /\ sch.event_counter < MaxScheduled
    /\ \E event \in SchedulerEvents : \E timestamp \in 0 .. SchedulerMaxTime :
         /\ sch' = schedule(sch, event, timestamp)
         /\ popped' = [call |-> "schedule", value |-> None,
                       found |-> sch.event_queue,
                       log |-> Append(popped.log,
                                      [time |-> timestamp, item |-> event])]
    /\ UNCHANGED << eng, eng2, vc, returned, registry, safe, pm, ls, mq >>

\* next_event(): None on an empty scheduler, (timestamp, event) otherwise
NextEvent ==
    /\ IF sch.event_queue = {}
       THEN /\ sch' = sch
            /\ popped' = [popped EXCEPT !.call = "next_event",
                                        !.value = None,
                                        !.found = sch.event_queue]
       ELSE /\ sch' = next_event(sch).sch
            /\ popped' = [popped EXCEPT
                            !.call = "next_event",
                            !.value = Some([time |-> next_event(sch).entry.time,
                                            item |-> next_event(sch).entry.item]),
                            !.found = sch.event_queue]
    /\ UNCHANGED << eng, eng2, vc, returned, registry, safe, pm, ls, mq >>

\* peek_time()
PeekTime ==
    /\ sch' = sch
    /\ popped' = [popped EXCEPT !.call = "peek_time",
                                !.value = peek_time(sch),
                                !.found = sch.event_queue]
    /\ UNCHANGED << eng, eng2, vc, returned, registry, safe, pm, ls, mq >>

SchedulerNext == Schedule \/ NextEvent \/ PeekTime

SchedulerSpec == SchedulerInitAlone /\ [][SchedulerNext]_vars

\* ------------------------------------------------------------------------
\* Properties of the engine
\* ------------------------------------------------------------------------
\* the blocks a replica committed: the members of the lists it appended to
\* committed_blocks
CommittedBlocks(rep) ==
    UNION {SeqToSet(rep.committed_blocks[i]) :
             i \in 1 .. Len(rep.committed_blocks)}

Correct(e) == {r \in Replicas : ~e.replicas[r].is_faulty}

\* C1 (Agreement): in every reachable state, any two correct replicas that
\* both committed a block at a height h committed the same block there,
\* under every delay, every order of timeouts and every configured fault kind
Agreement ==
    \A r \in Correct(eng) : \A r2 \in Correct(eng) :
      \A b \in CommittedBlocks(eng.replicas[r]) :
        \A b2 \in CommittedBlocks(eng.replicas[r2]) :
          b.height = b2.height => BlockHashOf(b) = BlockHashOf(b2)

\* at least one COMMIT event is in the event history
CommitRecorded ==
    \E k \in 1 .. Len(eng.event_history) :
      eng.event_history[k].type = "COMMIT"

\* C4 (Liveness under at most f crash faults): with at most f replicas of
\* kind Crash, the others honest and every delay within [min, max], a started
\* engine that keeps being stepped records a COMMIT event; with delays of at
\* most 1 the eight hops of the first view are over before its timers expire
\* at 9, so once the clock has reached the first expiry a COMMIT event has
\* been recorded
CommitBeforeFirstExpiry ==
    eng.current_time >= eng.settings.base_timeout_ms => CommitRecorded

\* the (type, timestamp, replica id) of each event of a history, in order;
\* the replica id is None for an event that has no replica_id
Projection(history) ==
    [k \in 1 .. Len(history) |->
       << history[k].type, history[k].timestamp,
          IF "replica_id" \in DOMAIN history[k]
          THEN Some(history[k].replica_id) ELSE None >>]

\* C5 (Determinism): two engines built from equal settings and seed, after
\* the same sequence of start() and step() calls, have event histories that
\* agree on the ordered sequence of (type, timestamp, replica id), for every
\* configured fault kind, RandomDrop included
Determinism ==
    Projection(eng.event_history) = Projection(eng2.event_history)

\* the LOCK_UPDATE events of replica i, in the order they were recorded
LockUpdates(i) ==
    SelectSeq(eng.event_history,
              LAMBDA ev : ev.type = "LOCK_UPDATE" /\ ev.replica_id = i)

\* C3 (Locked-QC monotonicity): every LOCK_UPDATE event of a replica carries
\* a locked_view greater than or equal to the locked_view of each earlier
\* LOCK_UPDATE event of that replica, so the view of locked_qc, which every
\* such event reports, never decreases
LockedQCMonotonic ==
    \A i \in Replicas :
      \A j \in 1 .. Len(LockUpdates(i)) : \A k \in 1 .. Len(LockUpdates(i)) :
        j < k => LockUpdates(i)[j].locked_view <= LockUpdates(i)[k].locked_view

\* the heights of the blocks a replica committed, in the order it committed
\* them
RECURSIVE CommittedHeights(_)
CommittedHeights(lists) ==
    IF lists = << >> THEN << >>
    ELSE MapSeq(Head(lists), LAMBDA b : b.height)
         \o CommittedHeights(Tail(lists))

NoTimeoutEvents ==
    \A k \in 1 .. Len(eng.event_history) :
      eng.event_history[k].type # "TIMEOUT"

\* the messages handed to handle_message so far, each with its heap entry
DeliveredAtMostOnce ==
    \A j \in 1 .. Len(eng.handed) : \A k \in 1 .. Len(eng.handed) :
      j # k => eng.handed[j].entry.seq # eng.handed[k].entry.seq

NotBeforeDeliveryTime ==
    \A k \in 1 .. Len(eng.handed) :
      eng.handed[k].at >= eng.handed[k].entry.time

DeliveredInOrder ==
    \A j \in 1 .. Len(eng.handed) : \A k \in 1 .. Len(eng.handed) :
      j < k /\ eng.handed[j].target_id = eng.handed[k].target_id
        => EntryBefore(eng.handed[j].entry, eng.handed[k].entry)

\* the MESSAGE_RECEIVE events recorded for the k-th message handed over
ReceiveEvents(k) ==
    {n \in 1 .. Len(eng.event_history) :
       /\ eng.event_history[n].type = "MESSAGE_RECEIVE"
       /\ eng.event_history[n].recipient_id = eng.handed[k].target_id
       /\ eng.event_history[n].message_id
            = eng.handed[k].entry.item.message_id}

OneReceiveEvent ==
    \A k \in 1 .. Len(eng.handed) : Cardinality(ReceiveEvents(k)) = 1

\* C10 (network delivery): every message enqueued by send is handed to its
\* target at most once and never before its delivery_time, the messages of
\* one target are handed over in increasing (delivery_time, send sequence)
\* order, and each delivery yields exactly one MESSAGE_RECEIVE event
NetworkDelivery ==
    /\ DeliveredAtMostOnce
    /\ NotBeforeDeliveryTime
    /\ DeliveredInOrder
    /\ OneReceiveEvent

\* ------------------------------------------------------------------------
\* Properties of the vote collector
\* ------------------------------------------------------------------------
\* the senders of the first k votes cast for the key of the k-th
SendersUpTo(k) ==
    {returned[j].vote.sender_id :
       j \in {i \in 1 .. k :
                VoteKey(returned[i].vote) = VoteKey(returned[k].vote)}}

Signers(qc) == {qc.signatures[i].replica_id : i \in 1 .. Len(qc.signatures)}

\* C6 (QC validity): every QC add_vote returns holds exactly quorum
\* signatures, of pairwise distinct replicas, each carrying the QC's phase,
\* view and block hash; its signers are the distinct senders of the votes
\* cast for the key, so a repeated vote of a sender is not counted
QCValidity ==
    \A k \in 1 .. Len(returned) :
      returned[k].qc # None =>
        LET qc == returned[k].qc[1]
        IN /\ Len(qc.signatures) = vc.quorum_size
           /\ Cardinality(Signers(qc)) = Len(qc.signatures)
           /\ Signers(qc) = SendersUpTo(k)
           /\ \A i \in 1 .. Len(qc.signatures) :
                /\ qc.signatures[i].message_type = qc.qc_type
                /\ qc.signatures[i].view_number = qc.view_number
                /\ qc.signatures[i].block_hash = qc.block_hash
           /\ << qc.view_number, qc.block_hash, qc.qc_type >>
                = VoteKey(returned[k].vote)

\* a QC was returned for a key for which some sender had voted twice before
QCValidityWitness ==
    \E k \in 1 .. Len(returned) :
      /\ returned[k].qc # None
      /\ \E i \in 1 .. k : \E j \in 1 .. k :
           /\ i < j
           /\ VoteKey(returned[i].vote) = VoteKey(returned[k].vote)
           /\ VoteKey(returned[j].vote) = VoteKey(returned[k].vote)
           /\ returned[i].vote.sender_id = returned[j].vote.sender_id

\* C7 (one QC per key): a call returns a QC exactly when it is the first
\* to bring its (view, block_hash, phase) key to quorum distinct senders, so
\* no key gets a QC twice and every later vote for it returns nothing
QCOnce ==
    \A k \in 1 .. Len(returned) :
      returned[k].qc # None <=>
        /\ Cardinality(SendersUpTo(k)) = vc.quorum_size
        /\ \A j \in 1 .. (k - 1) :
             VoteKey(returned[j].vote) = VoteKey(returned[k].vote)
               => Cardinality(SendersUpTo(j)) < vc.quorum_size

\* a vote of a new sender was cast for a key after the key's QC was returned
QCOnceWitness ==
    \E j \in 1 .. Len(returned) : \E k \in 1 .. Len(returned) :
      /\ j < k
      /\ returned[j].qc # None
      /\ VoteKey(returned[k].vote) = VoteKey(returned[j].vote)
      /\ returned[k].vote.sender_id \notin SendersUpTo(j)
      /\ returned[k].qc = None

\* ------------------------------------------------------------------------
\* Properties of the safe-node predicate
\* ------------------------------------------------------------------------
\* the hashes reached from a block by at most n parent links of the registry
RECURSIVE Ancestors(_, _, _)
Ancestors(reg, block, n) ==
    IF n = 0 THEN {}
    ELSE LET near == Ancestors(reg, block, n - 1)
         IN ({block.parent_hash}
             \cup {reg[h].parent_hash : h \in near \cap DOMAIN reg})
            \ {None}

\* block descends from the block of hash h
Descends(reg, block, h) == h \in Ancestors(reg, block, MaxHashes + 1)

\* the parent links from block run into a cycle
OnCycle(reg, block) ==
    \E h \in Ancestors(reg, block, MaxHashes + 1) \cap DOMAIN reg :
      h \in Ancestors(reg, reg[h], MaxHashes + 1)

\* C8 (safe-node predicate): is_safe_node is true when locked_qc is absent;
\* otherwise it is true for a block that descends from locked_qc.block_hash,
\* and for a block that does not it is true exactly when justify_qc is
\* present with a view strictly greater than locked_qc's; this for every
\* registry, registries with parent cycles included
SafeNodePredicate ==
    safe # None =>
      LET c == safe[1]
      IN c.result =
           (\/ c.locked_qc = None
            \/ Descends(registry, c.block, c.locked_qc[1].block_hash)
            \/ /\ c.justify_qc # None
               /\ c.justify_qc[1].view_number > c.locked_qc[1].view_number)

\* is_safe_node answered for a block whose parent links run into a cycle
\* that does not hold the locked block, with a justify QC of the locked
\* QC's view
SafeNodeWitness ==
    /\ safe # None
    /\ safe[1].locked_qc # None
    /\ safe[1].justify_qc # None
    /\ OnCycle(registry, safe[1].block)
    /\ ~Descends(registry, safe[1].block, safe[1].locked_qc[1].block_hash)
    /\ safe[1].justify_qc[1].view_number = safe[1].locked_qc[1].view_number
    /\ ~safe[1].result

\* replica i of engine e has fault kind Crash
Crashed(e, i) == e.replicas[i].is_faulty /\ e.replicas[i].fault_type = "CRASH"

\* the messages of sender i in flight
InFlightFrom(e, i) ==
    SelectSeq(e.network.mq.in_flight, LAMBDA f : f.sender_id = i)

\* the events recorded and the messages handed over in the step taken
NewEvents == SubSeq(eng'.event_history, Len(eng.event_history) + 1,
                    Len(eng'.event_history))

NewHanded == SubSeq(eng'.handed, Len(eng.handed) + 1, Len(eng'.handed))

\* in one step, replica i of kind Crash does nothing
CrashInert(i) ==
    /\ eng'.replicas[i].current_view = eng.replicas[i].current_view
    /\ eng'.replicas[i].current_phase = eng.replicas[i].current_phase
    /\ eng'.replicas[i].locked_qc = eng.replicas[i].locked_qc
    /\ eng'.replicas[i].prepare_qc = eng.replicas[i].prepare_qc
    /\ eng'.replicas[i].committed_blocks = eng.replicas[i].committed_blocks
    /\ eng'.replicas[i].created = eng.replicas[i].created
    /\ Len(InFlightFrom(eng', i)) <= Len(InFlightFrom(eng, i))
    /\ \A k \in 1 .. Len(NewHanded) : NewHanded[k].target_id # i
    /\ \A k \in 1 .. Len(NewEvents) :
         IF NewEvents[k].type = "MESSAGE_RECEIVE"
         THEN NewEvents[k].recipient_id # i
         ELSE NewEvents[k].type = "TIMEOUT" \/ NewEvents[k].replica_id # i

\* C11 (Crash): in every step of the engine, a replica whose fault kind is
\* Crash before and after the step keeps its view, phase, locked_qc and
\* prepare_qc, commits no block, creates and enqueues no message, is handed
\* no message and has no event of its own recorded (the TIMEOUT events are
\* the engine's)
CrashDoesNothing ==
    [][\A i \in Replicas :
         Crashed(eng, i) /\ Crashed(eng', i) => CrashInert(i)]_vars

\* a replica crashed during the run whose timer has expired since (its view
\* is behind the view the TIMEOUT event names) and for which a message that
\* is due stays in its queue
CrashWitness ==
    \E i \in Replicas :
      /\ Crashed(eng, i)
      /\ i \notin ConfiguredFaulty(eng.settings)
      /\ \E k \in 1 .. Len(eng.event_history) :
           /\ eng.event_history[k].type = "TIMEOUT"
           /\ eng.event_history[k].replica_id = i
           /\ eng.event_history[k].next_view > eng.replicas[i].current_view
      /\ \E m \in eng.network.mq.queues[i] : m.time < eng.current_time

\* nothing is left to do: no delivery to a non-blocked replica is pending
\* and the scheduler is empty
Quiescent(e) ==
    get_next_delivery_time(e.network) < 0 /\ peek_time(e.scheduler) = None

\* the step taken is the return of a step() call of a running engine
StepReturns ==
    /\ eng.is_running
    /\ eng'.ops = eng.ops
    /\ eng'.pc = "idle"

\* C12 (step): while the engine is running, a step() call that returns has
\* processed a network delivery or a live timeout and returns its event, or
\* it returns nothing and then no delivery to a non-blocked replica is
\* pending and the scheduler is empty
StepReturnsEventOrQuiescent ==
    [][StepReturns =>
         \/ eng'.ret = "event"
         \/ eng'.ret = "None" /\ Quiescent(eng')]_vars


(***************************************************************************)
(* C13.  The message handlers are total: whatever message is handed to a   *)
(* replica, handle_message returns a list of events and raises nothing,    *)
(* so no call of step() is ended by an exception from a delivered message. *)
(***************************************************************************)
HandlersTotal ==
    \A k \in 1..Len(eng.handed) : eng.handed[k].raised = ""


\* what reset() is to have restored in engine e: the clock, the scheduler,
\* the queues of the network, the event history, the replicas and the marks
\* of the faulty ones
Restored(e) ==
    /\ e.current_time = 0
    /\ e.scheduler.event_queue = {}
    /\ \A r \in Replicas : e.network.mq.queues[r] = {}
    /\ e.event_history = << >>
    /\ e.replicas = EngineInit(e.settings).replicas
    /\ e.network.blocked = IF e.settings.fault_type = "CRASH"
                           THEN ConfiguredFaulty(e.settings) ELSE {}
    /\ e.current_view = 1
    /\ ~e.is_running

\* every call of reset() leaves the engine restored
ResetRestores ==
    [][eng'.ops = eng.ops + 1 => Restored(eng')]_vars

(***************************************************************************)
(* C14.  reset() restores the initial state, so that reset() followed by   *)
(* start() and k calls of step() yields the event sequence of a freshly    *)
(* constructed engine with the same settings and seed given the same       *)
(* calls: the two histories agree on the ordered (type, timestamp,         *)
(* replica id) of their events.                                            *)
(***************************************************************************)
ReplayEqualsFresh ==
    eng.ops = 1 => Projection(eng.event_history) = Projection(eng2.event_history)


\* in the step taken, no replica's current_view decreases
ViewsNeverDecrease ==
    \A i \in Replicas :
      eng'.replicas[i].current_view >= eng.replicas[i].current_view

\* in the step taken, every timeout processed for a replica in its view v
\* (a TIMEOUT event was recorded for it) leaves that replica in view v + 1
LiveTimeoutMoves ==
    \A k \in 1 .. Len(NewEvents) :
      NewEvents[k].type = "TIMEOUT"
        => /\ NewEvents[k].view = eng.replicas[NewEvents[k].replica_id].current_view
           /\ eng'.replicas[NewEvents[k].replica_id].current_view = NewEvents[k].view + 1

(***************************************************************************)
(* C15.  During a run the current_view of each replica never decreases,    *)
(* and processing a live timeout of a replica in view v moves that replica *)
(* to exactly view v + 1.                                                  *)
(***************************************************************************)
ViewMonotonicTimeoutAdvance ==
    [][ViewsNeverDecrease /\ LiveTimeoutMoves]_vars


\* the current timeout of pacemaker p is within its bounds
WithinBounds(p) ==
    /\ p.min_timeout_ms <= p.current_timeout_ms
    /\ p.current_timeout_ms <= p.max_timeout_ms

(***************************************************************************)
(* C16.  After any sequence of start_timer, on_timeout, on_view_success    *)
(* and reset calls the current timeout of an adaptive pacemaker is within  *)
(* its bounds: every call leaves min_timeout <= current_timeout <=         *)
(* max_timeout.                                                            *)
(***************************************************************************)
TimeoutWithinBounds ==
    [][WithinBounds(pm')]_vars


\* the PrepareVote messages replica i has sent: those waiting in a queue of
\* the network and those already handed to their target
PrepareVotesSent(i) ==
    {m \in UNION {{x.item : x \in eng.network.mq.queues[r]} : r \in Replicas}
              \cup {eng.handed[k].entry.item : k \in 1 .. Len(eng.handed)} :
       m.message_type = "PREPARE_VOTE" /\ m.sender_id = i}

(***************************************************************************)
(* C17.  A replica of fault kind DoubleVote that sends a PrepareVote for a *)
(* block A in a view also sends the leader a PrepareVote for a block with  *)
(* a different hash in the same view and phase.                            *)
(***************************************************************************)
DoubleVoteSendsTwo ==
    \A i \in Replicas :
      eng.replicas[i].is_faulty /\ eng.replicas[i].fault_type = "DOUBLE_VOTE"
        => \A m \in PrepareVotesSent(i) :
             \E o \in PrepareVotesSent(i) :
               /\ o.view_number = m.view_number
               /\ o.target_id = m.target_id
               /\ o.block_hash # m.block_hash


(***************************************************************************)
(* C18.  Leader rotation: for every view v and n replicas get_leader(v) is *)
(* v mod n, the one replica id r in 0 .. n - 1 with v = q * n + r for some *)
(* q, and is_leader(r, v) holds for exactly that replica: each view has    *)
(* exactly one leader.                                                     *)
(***************************************************************************)
LeaderRotation ==
    ls.num_replicas > 0 /\ ls.asked # None
      => /\ ls.asked[1].leader \in 0 .. ls.num_replicas - 1
         /\ \E q \in 0 .. ls.asked[1].view_number :
              ls.asked[1].view_number = q * ls.num_replicas + ls.asked[1].leader
         /\ {r \in 0 .. ls.num_replicas - 1 : ls.asked[1].is_leader[r]}
              = {ls.asked[1].leader}

\* a view beyond the second round of the rotation whose leader is not
\* replica 0
LeaderRotationWitness ==
    /\ ls.num_replicas > 4
    /\ ls.asked # None
    /\ ls.asked[1].view_number >= 2 * ls.num_replicas
    /\ ls.asked[1].leader > 0
    /\ ls.asked[1].is_leader[ls.asked[1].leader]


\* in the step taken, every replica for which a COMMIT event was recorded
\* has moved from its view v to view v + 1 and has a timeout of view v + 1
\* scheduled
CommitAdvances ==
    \A k \in 1 .. Len(NewEvents) :
      NewEvents[k].type = "COMMIT"
        => /\ eng'.replicas[NewEvents[k].replica_id].current_view
                = eng.replicas[NewEvents[k].replica_id].current_view + 1
           /\ \E x \in eng'.scheduler.event_queue :
                /\ x.item.replica_id = NewEvents[k].replica_id
                /\ x.item.view = eng.replicas[NewEvents[k].replica_id].current_view + 1

EngineViewHighWaterMark ==
    eng.pc = "idle"
      => \A i \in Replicas : eng.current_view >= eng.replicas[i].current_view


\* the hashes of the blocks a replica recorded as committed, in the order it
\* recorded them
RECURSIVE CommittedHashSeq(_)
CommittedHashSeq(lists) ==
    IF lists = << >> THEN << >>
    ELSE MapSeq(Head(lists), LAMBDA b : BlockHashOf(b))
         \o CommittedHashSeq(Tail(lists))

\* the block hashes of the COMMIT events of replica r, in the order recorded
EmittedCommits(r) ==
    MapSeq(SelectSeq(eng.event_history,
                     LAMBDA ev : ev.type = "COMMIT" /\ ev.replica_id = r),
           LAMBDA ev : ev.block_hash)

(***************************************************************************)
(* C21.  Executing a branch records every committed block in the state of  *)
(* the replica: after each handled CommitVote or Decide the hashes of its  *)
(* committed_blocks, in order, are the block hashes of the COMMIT events   *)
(* it has emitted, committed_block_hashes is the same set, and no block    *)
(* appears twice.                                                          *)
(***************************************************************************)
BranchRecorded ==
    \A r \in Replicas :
      LET recorded == CommittedHashSeq(eng.replicas[r].committed_blocks)
      IN /\ recorded = EmittedCommits(r)
         /\ eng.replicas[r].committed_block_hashes = SeqToSet(recorded)
         /\ \A j \in 1 .. Len(recorded) : \A k \in 1 .. Len(recorded) :
              recorded[j] = recorded[k] => j = k


\* the replicas whose NewView messages replica r of engine e has collected
NewViewSenders(e, r) ==
    {e.replicas[r].new_view_messages[k].sender_id :
       k \in 1 .. Len(e.replicas[r].new_view_messages)}

\* in the step taken, every replica that proposed (a PROPOSAL event of it
\* was recorded) holds NewView messages of at least quorum distinct replicas
ProposesWithQuorum ==
    \A k \in 1 .. Len(NewEvents) :
      NewEvents[k].type = "PROPOSAL"
        => Cardinality(NewViewSenders(eng', NewEvents[k].replica_id))
             >= quorum_size(eng.settings)

(***************************************************************************)
(* C22.  When a leader proposes in view v, the NewView messages it has     *)
(* collected come from at least quorum distinct replicas; the leader's own *)
(* NewView counts once.                                                    *)
(***************************************************************************)
NewViewQuorum ==
    [][ProposesWithQuorum]_vars

\* the PROPOSAL events recorded by engine e
Proposals(e) ==
    SelectSeq(e.event_history, LAMBDA ev : ev.type = "PROPOSAL")

\* every proposal of the step taken is by the leader of its view, who holds
\* at least quorum NewView messages and has not proposed in that view before
ProposesOnce ==
    \A k \in 1 .. Len(NewEvents) :
      NewEvents[k].type = "PROPOSAL"
        => LET r == NewEvents[k].replica_id
               v == NewEvents[k].view
           IN /\ r = get_leader(v)
              /\ eng'.replicas[r].current_view = v
              /\ Len(eng'.replicas[r].new_view_messages)
                   >= quorum_size(eng.settings)
              /\ \A j \in 1 .. Len(Proposals(eng)) :
                   ~(Proposals(eng)[j].replica_id = r
                     /\ Proposals(eng)[j].view = v)
              /\ \A j \in 1 .. Len(NewEvents) :
                   (NewEvents[j].type = "PROPOSAL"
                    /\ NewEvents[j].replica_id = r
                    /\ NewEvents[j].view = v) => j = k

(***************************************************************************)
(* C23.  A leader issues at most one proposal per view: each replica emits *)
(* at most one PROPOSAL event for any view v, and only while it is the     *)
(* leader of v and has collected at least quorum NewView messages.         *)
(***************************************************************************)
OneProposalPerView ==
    [][ProposesOnce]_vars

\* a leader that has proposed in its view received a further NewView of that
\* view afterwards and proposed no second time
OneProposalWitness ==
    \E r \in Replicas :
      /\ eng.pc # "unused"
      /\ Len(eng.replicas[r].new_view_messages) > quorum_size(eng.settings)
      /\ eng.replicas[r].last_proposed_view = eng.replicas[r].current_view
      /\ \E j \in 1 .. Len(Proposals(eng)) :
           /\ Proposals(eng)[j].replica_id = r
           /\ Proposals(eng)[j].view = eng.replicas[r].current_view

\* the justify_qc of the NewView messages replica r of engine e has collected
JustifyQCs(e, r) ==
    {e.replicas[r].new_view_messages[k].qc[1] :
       k \in {j \in 1 .. Len(e.replicas[r].new_view_messages) :
                e.replicas[r].new_view_messages[j].qc # None}}

\* block b is the child of the block that the highest-view QC of qcs
\* certifies, the child of genesis exactly when qcs is empty
ChildOfHighest(b, qcs) ==
    /\ (b.parent_hash = BlockHashOf(GenesisBlock)) <=> (qcs = {})
    /\ qcs # {}
         => \E q \in qcs :
              /\ \A o \in qcs : o.view_number <= q.view_number
              /\ b.parent_hash = q.block_hash
              /\ b.height = q.block_hash[3] + 1

\* every block proposed in the step taken extends the highest QC collected,
\* and every Prepare handed over carries the QC of its block's parent
ProposesChild ==
    /\ \A k \in 1 .. Len(NewEvents) :
         NewEvents[k].type = "PROPOSAL"
           => ChildOfHighest(
                  eng'.replicas[NewEvents[k].replica_id].block_store[
                      NewEvents[k].block_hash],
                  JustifyQCs(eng', NewEvents[k].replica_id))
    /\ \A k \in 1 .. Len(NewHanded) :
         NewHanded[k].entry.item.message_type = "PREPARE"
           => ChildOfHighest(
                  NewHanded[k].entry.item.block[1],
                  {NewHanded[k].entry.item.qc[j] :
                     j \in 1 .. Len(NewHanded[k].entry.item.qc)})

(***************************************************************************)
(* C24.  The block a leader proposes is a child of the block certified by  *)
(* the highest-view justify_qc among the NewView messages it collected:    *)
(* its height is that block's height + 1 and the Prepare carries that QC;  *)
(* it is a child of genesis exactly when no collected NewView carries a    *)
(* QC.                                                                     *)
(***************************************************************************)
ProposalExtendsHighQC ==
    [][ProposesChild]_vars

\* the VOTE_SEND events of phase Prepare among the events of the step taken
NewPrepareVoteSends ==
    SelectSeq(NewEvents,
              LAMBDA ev : ev.type = "VOTE_SEND" /\ ev.vote_type = "PREPARE")

\* a PrepareVote sent in the step taken answers a Prepare handed to the voter
\* whose block is safe and whose handling finds current_view above
\* last_voted_view; the vote raises last_voted_view to current_view
VotesWhenSafe ==
    \A k \in 1 .. Len(NewPrepareVoteSends) :
      LET r == NewPrepareVoteSends[k].replica_id
      IN /\ Len(NewPrepareVoteSends) = 1
         /\ Len(NewHanded) = 1
         /\ NewHanded[1].target_id = r
         /\ NewHanded[1].entry.item.message_type = "PREPARE"
         /\ BlockHashOf(NewHanded[1].entry.item.block[1])
              = NewPrepareVoteSends[k].block_hash
         /\ is_safe_node(eng'.replicas[r].registry,
                         NewHanded[1].entry.item.block[1],
                         NewHanded[1].entry.item.qc, eng.replicas[r].locked_qc)
         /\ \/ eng.replicas[r].last_voted_view = None
            \/ eng.replicas[r].current_view
                 > eng.replicas[r].last_voted_view[1]
         /\ eng'.replicas[r].last_voted_view
              = Some(eng.replicas[r].current_view)

\* a leader that proposes in view v has voted in v
ProposerHasVoted ==
    \A k \in 1 .. Len(NewEvents) :
      NewEvents[k].type = "PROPOSAL"
        => eng'.replicas[NewEvents[k].replica_id].last_voted_view
             = Some(NewEvents[k].view)

\* no step lowers or forgets the last_voted_view of a replica
LastVotedViewGrows ==
    \A r \in Replicas :
      eng.pc # "unused" /\ eng.replicas[r].last_voted_view # None
        => /\ eng'.replicas[r].last_voted_view # None
           /\ eng'.replicas[r].last_voted_view[1]
                >= eng.replicas[r].last_voted_view[1]

(***************************************************************************)
(* C25.  A replica sends a PrepareVote for a received Prepare only if      *)
(* safe_node holds for the block and its current_view is greater than      *)
(* last_voted_view; hence each replica sends at most one PrepareVote per   *)
(* view (a vote needs current_view above last_voted_view and leaves them   *)
(* equal), a leader that proposed in view v does not vote again in v, and  *)
(* last_voted_view never decreases.                                        *)
(***************************************************************************)
OnePrepareVotePerView ==
    [][VotesWhenSafe /\ ProposerHasVoted /\ LastVotedViewGrows]_vars

\* the PREPARE vote events replica r has recorded
PrepareVoteSends(r) ==
    SelectSeq(eng.event_history,
              LAMBDA ev : ev.type = "VOTE_SEND" /\ ev.vote_type = "PREPARE"
                          /\ ev.replica_id = r)

\* a replica that is not locked voted for a Prepare and was then, still in
\* the view of that vote, handed the Prepare of another block: it sent no
\* second PrepareVote
OnePrepareVoteWitness ==
    /\ eng.pc # "unused"
    /\ \E r \in Replicas :
         /\ ~eng.replicas[r].is_faulty
         /\ eng.replicas[r].locked_qc = None
         /\ eng.replicas[r].last_voted_view
              = Some(eng.replicas[r].current_view)
         /\ Len(PrepareVoteSends(r)) = 1
         /\ \E k \in 1 .. Len(eng.handed) :
              /\ eng.handed[k].target_id = r
              /\ eng.handed[k].entry.item.message_type = "PREPARE"
              /\ eng.handed[k].raised = ""
              /\ eng.handed[k].at >= PrepareVoteSends(r)[1].timestamp
              /\ BlockHashOf(eng.handed[k].entry.item.block[1])
                   # PrepareVoteSends(r)[1].block_hash

\* the votes waiting in the queues of the network of engine e
QueuedVotes(e) ==
    {m \in UNION {{x.item : x \in e.network.mq.queues[r]} : r \in Replicas} :
       m.message_type \in VoteTypes}

\* every vote enqueued in the step taken carries the view of the message
\* handed over in that step and is addressed to its sender, the leader of
\* that view
VoteAnswersLeader ==
    \A vote \in QueuedVotes(eng') \ QueuedVotes(eng) :
      /\ Len(NewHanded) = 1
      /\ NewHanded[1].entry.item.message_type
           \in {"PREPARE", "PRE_COMMIT", "COMMIT"}
      /\ NewHanded[1].target_id = vote.sender_id
      /\ vote.view_number = NewHanded[1].entry.item.view_number
      /\ vote.target_id = Some(NewHanded[1].entry.item.sender_id)
      /\ NewHanded[1].entry.item.sender_id
           = get_leader(NewHanded[1].entry.item.view_number)

(***************************************************************************)
(* C26.  Every vote (PrepareVote, PreCommitVote, CommitVote) that a        *)
(* replica sends in answer to a leader message of view v carries view v    *)
(* and is addressed to leader(v), the sender of that message, also when    *)
(* the replica's own current_view is lower than v.                         *)
(***************************************************************************)
VotesCarryMessageView ==
    [][VoteAnswersLeader]_vars

\* the messages waiting in the queues of the network of engine e
Queued(e) ==
    UNION {{x.item : x \in e.network.mq.queues[r]} : r \in Replicas}

\* qc (Optional) is a pre-commit QC, a QC of PreCommitVotes, for the block
\* with hash h
PreCommitQCFor(qc, h) ==
    /\ qc # None
    /\ qc[1].qc_type = "PRE_COMMIT_VOTE"
    /\ qc[1].block_hash = h

\* a replica that sends a CommitVote for a block in the step taken is locked
\* on the pre-commit QC for that block when the step ends, and so is a
\* leader that broadcasts a Commit with the pre-commit QC it formed
LockedWhenVoting ==
    /\ \A k \in 1 .. Len(NewEvents) :
         (NewEvents[k].type = "VOTE_SEND" /\ NewEvents[k].vote_type = "COMMIT")
           => PreCommitQCFor(eng'.replicas[NewEvents[k].replica_id].locked_qc,
                             NewEvents[k].block_hash)
    /\ \A m \in Queued(eng') \ Queued(eng) :
         /\ m.message_type = "COMMIT_VOTE"
              => PreCommitQCFor(eng'.replicas[m.sender_id].locked_qc,
                                m.block_hash)
         /\ m.message_type = "COMMIT"
              => /\ PreCommitQCFor(m.qc, m.qc[1].block_hash)
                 /\ eng'.replicas[m.sender_id].locked_qc = m.qc

(***************************************************************************)
(* C27.  Locking precedes commit voting: whenever a replica sends a        *)
(* CommitVote for block b, its locked_qc is the pre-commit QC for b, and a *)
(* leader that formed the pre-commit QC for b is locked on b when it       *)
(* broadcasts Commit.                                                      *)
(***************************************************************************)
LockBeforeCommitVote ==
    [][LockedWhenVoting]_vars

\* a replica other than the leader has sent a CommitVote and is locked on the
\* pre-commit QC of a leader that is locked on it too
LockBeforeCommitVoteWitness ==
    /\ eng.pc # "unused"
    /\ \E m \in Queued(eng) :
         /\ m.message_type = "COMMIT_VOTE"
         /\ m.sender_id # m.target_id[1]
         /\ PreCommitQCFor(eng.replicas[m.sender_id].locked_qc,
                           m.block_hash)
         /\ eng.replicas[m.target_id[1]].locked_qc
              = eng.replicas[m.sender_id].locked_qc

\* the hashes of the block with hash h and of its ancestors: a hash holds the
\* hash of the parent in first place
RECURSIVE HashChain(_)
HashChain(h) == IF h = None THEN {} ELSE {h} \cup HashChain(h[1])

\* qc is a commit QC: CommitVotes of one view for one block, signed by at
\* least quorum distinct replicas
IsCommitQC(qc, st) ==
    /\ qc.qc_type = "COMMIT_VOTE"
    /\ Cardinality(Signers(qc)) >= NumReplicas - st.num_faulty
    /\ \A i \in 1 .. Len(qc.signatures) :
         /\ qc.signatures[i].message_type = "COMMIT_VOTE"
         /\ qc.signatures[i].view_number = qc.view_number
         /\ qc.signatures[i].block_hash = qc.block_hash

\* the QCs the collector of replica r formed in the step taken
NewFormedQCs(r) ==
    {eng'.replicas[r].vote_collector.formed_qcs[k] :
       k \in DOMAIN eng'.replicas[r].vote_collector.formed_qcs
             \ DOMAIN eng.replicas[r].vote_collector.formed_qcs}

\* every block a replica commits in the step taken is the block, or an
\* ancestor of the block, of a commit QC: the one the replica forms as leader
\* from the CommitVote handed to it, or the one of the Decide handed to it
CommitsWithQC ==
    \A r \in Replicas :
      \A b \in CommittedBlocks(eng'.replicas[r])
               \ CommittedBlocks(eng.replicas[r]) :
        /\ Len(NewHanded) = 1
        /\ NewHanded[1].target_id = r
        /\ \/ /\ NewHanded[1].entry.item.message_type = "DECIDE"
              /\ NewHanded[1].entry.item.qc # None
              /\ IsCommitQC(NewHanded[1].entry.item.qc[1], eng.settings)
              /\ BlockHashOf(b)
                   \in HashChain(NewHanded[1].entry.item.qc[1].block_hash)
           \/ /\ NewHanded[1].entry.item.message_type = "COMMIT_VOTE"
              /\ \E qc \in NewFormedQCs(r) :
                   /\ IsCommitQC(qc, eng.settings)
                   /\ BlockHashOf(b) \in HashChain(qc.block_hash)

(***************************************************************************)
(* C28.  A replica commits block b only if a commit QC was formed before   *)
(* by some leader, that is, CommitVotes from at least quorum distinct      *)
(* replicas in one view for b or for a descendant of b.                    *)
(***************************************************************************)
CommitNeedsCommitQC ==
    [][CommitsWithQC]_vars

\* a leader committed a block on forming the commit QC and another replica
\* committed it on the Decide
CommitNeedsCommitQCWitness ==
    /\ eng.pc # "unused"
    /\ \E k \in 1 .. Len(eng.handed) :
         /\ eng.handed[k].entry.item.message_type = "DECIDE"
         /\ CommittedBlocks(eng.replicas[eng.handed[k].target_id]) # {}
         /\ CommittedBlocks(eng.replicas[eng.handed[k].entry.item.sender_id])
              = CommittedBlocks(eng.replicas[eng.handed[k].target_id])

\* the view of an Optional QC, -1 when there is none
QCView(qc) == IF qc = None THEN -1 ELSE qc[1].view_number

\* the step taken lowers the view of no replica's prepare_qc, and a NewView
\* enqueued in it carries the sender's prepare_qc
PrepareQCGrows ==
    /\ \A r \in Replicas :
         eng.pc # "unused"
           => QCView(eng'.replicas[r].prepare_qc)
                >= QCView(eng.replicas[r].prepare_qc)
    /\ \A m \in Queued(eng') \ Queued(eng) :
         m.message_type = "NEW_VIEW"
           => m.qc = eng'.replicas[m.sender_id].prepare_qc

(***************************************************************************)
(* C29.  Per replica, the view of prepare_qc (highQC) never decreases, so  *)
(* the justify_qc a replica puts into a NewView message is the             *)
(* highest-view prepare QC it has ever received or formed.                 *)
(***************************************************************************)
PrepareQCMonotonic ==
    [][PrepareQCGrows]_vars

\* the scheduler of engine e holds a TIMEOUT of replica r for the view the
\* replica is in
TimerPending(e, r) ==
    \E x \in e.scheduler.event_queue :
      /\ x.item.type = "TIMEOUT"
      /\ x.item.replica_id = r
      /\ x.item.view = e.replicas[r].current_view

(***************************************************************************)
(* C30.  After start(), every replica whose fault kind is not Crash always *)
(* has a pending scheduled TIMEOUT for its current view, for any sequence  *)
(* of step, inject_fault and clear_fault calls (the state between two      *)
(* calls is the one looked at); hence a replica that stays in view v       *)
(* eventually times out and enters view v + 1.                             *)
(***************************************************************************)
TimerAlwaysPending ==
    (eng.pc = "idle" /\ eng.is_running)
      => \A r \in Replicas : ~Crashed(eng, r) => TimerPending(eng, r)

\* the next iteration of the loop of step() pops a TIMEOUT whose view is not
\* the view its replica is in
StaleTimeoutNext(e) ==
    /\ e.pc \in {"idle", "loop"}
    /\ e.is_running
    /\ e.pc = "loop" => e.iteration < MaxIterations
    /\ e.scheduler.event_queue # {}
    /\ NextTime(e) = HeapMin(e.scheduler.event_queue).time
    /\ ~(get_next_delivery_time(e.network) >= 0
         /\ get_next_delivery_time(e.network)
              <= HeapMin(e.scheduler.event_queue).time)
    /\ LET t == HeapMin(e.scheduler.event_queue).item
       IN e.replicas[t.replica_id].current_view # t.view

\* the step pops the stale TIMEOUT and changes nothing else (a step that
\* leaves "ops" alone is not a call of inject_fault or clear_fault)
StaleTimeoutDropped ==
    /\ eng'.event_history = eng.event_history
    /\ eng'.replicas = eng.replicas
    /\ eng'.pacemakers = eng.pacemakers
    /\ eng'.network = eng.network
    /\ eng'.scheduler.event_queue
         = eng.scheduler.event_queue \ {HeapMin(eng.scheduler.event_queue)}

(***************************************************************************)
(* C31.  A popped TIMEOUT{r, v} whose view differs from the current view   *)
(* of replica r is ignored: no TIMEOUT event is recorded, the replica's    *)
(* view and its pacemaker are unchanged, and no new timer is scheduled.    *)
(***************************************************************************)
StaleTimeoutIgnored ==
    [][StaleTimeoutNext(eng) /\ eng'.ops = eng.ops
         => StaleTimeoutDropped]_vars

\* a stale TIMEOUT has been popped: step() is back at the top of its loop
\* and a replica is left without any TIMEOUT in the scheduler, while its
\* pacemaker is in a view the replica never entered
StaleTimeoutWitness ==
    /\ eng.pc = "loop"
    /\ eng.is_running
    /\ \E r \in Replicas :
         /\ \A x \in eng.scheduler.event_queue : x.item.replica_id # r
         /\ eng.pacemakers[r].current_view # eng.replicas[r].current_view

\* the message next handed over is for a replica without fault and names a
\* view below the view the replica is in
OldMessageNext(e) ==
    /\ e.pc = "deliver"
    /\ ~e.replicas[e.replica_id].is_faulty
    /\ Head(e.messages).view_number < e.replicas[e.replica_id].current_view

\* the step changes no replica, enqueues nothing, schedules nothing and
\* records the MESSAGE_RECEIVE of the engine only
OldMessageDropped ==
    /\ eng'.replicas = eng.replicas
    /\ \A r \in Replicas :
         eng'.network.mq.queues[r] \subseteq eng.network.mq.queues[r]
    /\ SeqToSet(eng'.network.mq.in_flight)
         \subseteq SeqToSet(eng.network.mq.in_flight)
    /\ eng'.scheduler = eng.scheduler
    /\ eng'.pacemakers = eng.pacemakers
    /\ NewEvents = << MessageReceive(eng, Head(eng.messages)) >>
    /\ Len(NewHanded) = 1
    /\ NewHanded[1].raised = ""

(***************************************************************************)
(* C32.  An honest replica that handles a message whose view is lower than *)
(* its current_view changes none of its state (view, phase, locked_qc,     *)
(* prepare_qc, collected votes and NewViews, block store, commits), sends  *)
(* nothing and returns no events.                                          *)
(***************************************************************************)
OldMessageIgnored == [][OldMessageNext(eng) => OldMessageDropped]_vars

\* a replica without fault has just been handed a message of a view below
\* its own: the MESSAGE_RECEIVE of that message is the last event recorded
OldMessageWitness ==
    /\ eng.handed # << >>
    /\ LET h == eng.handed[Len(eng.handed)]
       IN /\ ~eng.replicas[h.target_id].is_faulty
          /\ h.entry.item.view_number < eng.replicas[h.target_id].current_view
          /\ h.history_len + 1 = Len(eng.event_history)
          /\ eng.event_history[Len(eng.event_history)].type
               = "MESSAGE_RECEIVE"
          /\ h.entry.item.message_type \in {"PREPARE", "PREPARE_VOTE"}

\* the kinds of event that carry the id of the replica they are about
ReplicaEventTypes == {"VIEW_CHANGE", "VOTE_SEND", "PROPOSAL", "TIMEOUT", "COMMIT"}

(***************************************************************************)
(* C33.  The event history contains no event attributed to a replica while *)
(* its fault kind is Crash: no VIEW_CHANGE, VOTE_SEND, PROPOSAL, TIMEOUT   *)
(* or COMMIT event recorded in a step carries the id of a replica that is  *)
(* of kind Crash before and after the step.                                *)
(***************************************************************************)
NoEventOfCrashed ==
    [][\A k \in 1 .. Len(NewEvents) :
         NewEvents[k].type \in ReplicaEventTypes
           => ~(Crashed(eng, NewEvents[k].replica_id)
                /\ Crashed(eng', NewEvents[k].replica_id))]_vars

\* replica i of engine e has fault kind Silent
Silent(e, i) == e.replicas[i].is_faulty /\ e.replicas[i].fault_type = "SILENT"

\* the queue entries of the network that the step added
NewQueued(r) == eng'.network.mq.queues[r] \ eng.network.mq.queues[r]

\* in one step, replica i of kind Silent enqueues no message
SilentSendsNothing(i) ==
    \A r \in Replicas : \A x \in NewQueued(r) : x.item.sender_id # i

\* a timeout of replica i for its view processed in the step takes the
\* replica to the next view, phase NewView
SilentStartsView(i) ==
    \A k \in 1 .. Len(NewEvents) :
      (NewEvents[k].type = "TIMEOUT" /\ NewEvents[k].replica_id = i)
        => /\ eng'.replicas[i].current_view = NewEvents[k].next_view
           /\ eng'.replicas[i].current_phase = "NEW_VIEW"

\* a message handed to replica i in the step has a BYZANTINE_ACTION event of
\* the replica recorded for it
SilentReportsMessage(i) ==
    \A k \in 1 .. Len(NewHanded) :
      NewHanded[k].target_id = i
        => \E j \in 1 .. Len(NewEvents) :
             /\ NewEvents[j].type = "BYZANTINE_ACTION"
             /\ NewEvents[j].replica_id = i
             /\ NewEvents[j].view = NewHanded[k].entry.item.view_number

(***************************************************************************)
(* C34.  A replica with fault kind Silent never enqueues any message (no   *)
(* NewView, no vote, no proposal), still updates current_view and phase on *)
(* start_view, and emits a BYZANTINE_ACTION event for every incoming       *)
(* message.                                                                *)
(***************************************************************************)
SilentBehaviour ==
    [][\A i \in Replicas :
         Silent(eng, i) /\ Silent(eng', i)
           => /\ SilentSendsNothing(i)
              /\ SilentStartsView(i)
              /\ SilentReportsMessage(i)]_vars

\* the parts of the statement that do not concern incoming messages
SilentSendsAndStarts ==
    [][\A i \in Replicas :
         Silent(eng, i) /\ Silent(eng', i)
           => SilentSendsNothing(i) /\ SilentStartsView(i)]_vars

\* the delivery times of the messages queued for replicas that are not
\* blocked, and the deadlines of the scheduled timers
DeliveryTimes(e) ==
    {x.time : x \in UNION {e.network.mq.queues[r] :
                             r \in e.network.registered \ e.network.blocked}}

TimerTimes(e) == {x.time : x \in e.scheduler.event_queue}

\* the earliest timestamp of the pending work
EarliestPending(e) ==
    CHOOSE t \in DeliveryTimes(e) \cup TimerTimes(e) :
      \A u \in DeliveryTimes(e) \cup TimerTimes(e) : t <= u

\* step() is called or is at the top of its loop, with work pending
StepHasWork(e) ==
    /\ e.pc \in {"idle", "loop"}
    /\ e.is_running
    /\ e.pc = "loop" => e.iteration < MaxIterations
    /\ DeliveryTimes(e) \cup TimerTimes(e) # {}

\* the iteration takes the clock to the earliest timestamp; it hands over
\* messages and leaves the timers alone when a delivery is due then, and
\* pops a timer of that deadline otherwise
InTimeOrder ==
    /\ eng'.ret # "ValueError"
    /\ eng'.current_time = EarliestPending(eng)
    /\ IF EarliestPending(eng) \in DeliveryTimes(eng)
       THEN /\ eng'.pc = "deliver"
            /\ eng'.scheduler = eng.scheduler
            /\ \A k \in 1 .. Len(eng'.entries) :
                 eng'.entries[k].time <= EarliestPending(eng)
            /\ \E k \in 1 .. Len(eng'.entries) :
                 eng'.entries[k].time = EarliestPending(eng)
       ELSE /\ eng'.pc \in {"idle", "loop"}
            /\ \E x \in eng.scheduler.event_queue :
                 /\ x.time = EarliestPending(eng)
                 /\ x \notin eng'.scheduler.event_queue
            /\ \A r \in Replicas :
                 eng.network.mq.queues[r] \subseteq eng'.network.mq.queues[r]

(***************************************************************************)
(* C35.  step() handles pending work in time order: it processes the       *)
(* earlier of the next network delivery and the next scheduled timer, a    *)
(* tie goes to the network delivery, and the clock equals that timestamp   *)
(* afterwards; so no timeout with deadline t is processed before a message *)
(* deliverable at a time <= t.                                             *)
(***************************************************************************)
StepInTimeOrder ==
    [][StepHasWork(eng) /\ eng'.ops = eng.ops => InTimeOrder]_vars

(***************************************************************************)
(* C36.  For every sequence of start, step, inject_fault and clear_fault   *)
(* calls, the time to which step() advances the clock is never below the   *)
(* current time, so the clock never moves backward and step() never fails; *)
(* this includes the step after a crashed replica that still has queued    *)
(* messages is unblocked by clear_fault.                                   *)
(***************************************************************************)
ClockNeverBackward ==
    /\ eng.ret # "ValueError"
    /\ (eng.pc \in {"idle", "loop"} /\ eng.is_running /\ NextTime(eng) >= 0)
         => NextTime(eng) >= eng.current_time

(***************************************************************************)
(* C37.  In every reachable state the network's blocked set is exactly the *)
(* set of replicas whose fault kind is Crash, after any sequence of        *)
(* construction, inject_fault, clear_fault and reset calls (including      *)
(* injecting a non-Crash fault into a replica that is currently crashed).  *)
(***************************************************************************)
BlockedIsCrashed ==
    eng.network.blocked = {r \in Replicas : Crashed(eng, r)}

\* how many entries for (message, target_id, delivery_time) the delivery
\* queues hold, and how many the in-flight list holds
QueuedCount(message, target_id, delivery_time) ==
    Cardinality({x \in mq.queues[target_id] :
                   x.item = message /\ x.time = delivery_time})

InFlightCount(message, target_id, delivery_time) ==
    Len(SelectSeq(mq.in_flight,
                  LAMBDA e : /\ e.message = message
                             /\ e.target_id = target_id
                             /\ e.delivery_time = delivery_time))

(***************************************************************************)
(* C38.  The network's in-flight list is a derived view of the delivery    *)
(* queues: after every send, broadcast, delivery and reset it contains     *)
(* exactly the (message, target, delivery_time) entries still queued, each *)
(* exactly once (one in-flight entry for each queued entry).               *)
(***************************************************************************)
InFlightIsQueued ==
    /\ \A k \in 1 .. Len(mq.in_flight) :
         /\ mq.in_flight[k].message \in QueueMessages
         /\ mq.in_flight[k].target_id \in QueueTargets
         /\ mq.in_flight[k].delivery_time \in 0 .. QueueMaxTime
    /\ \A message \in QueueMessages : \A target_id \in Replicas :
         \A delivery_time \in 0 .. QueueMaxTime :
           InFlightCount(message, target_id, delivery_time)
             = QueuedCount(message, target_id, delivery_time)

\* of three messages queued for one replica, the earliest has been delivered
\* and two with the same message_id and different delivery times remain
InFlightWitness ==
    /\ mq.message_counter = 3
    /\ Len(mq.in_flight) = 2
    /\ \E x, y \in mq.queues[0] :
         /\ x.item.message_id = y.item.message_id
         /\ x.time < y.time
         /\ x.seq > 1 /\ y.seq > 1

\* entry x is, of the entries q, the one with the smallest timestamp and,
\* among those of that timestamp, the one scheduled first
ScheduledFirst(x, q) ==
    \A y \in q : x.time < y.time \/ (x.time = y.time /\ x.seq <= y.seq)

\* the counter of an entry is the position of its schedule call
CounterIsPosition ==
    \A x \in sch.event_queue :
      /\ x.seq \in 1 .. Len(popped.log)
      /\ popped.log[x.seq] = [time |-> x.time, item |-> x.item]

(***************************************************************************)
(* C39.  The event scheduler's next_event always returns the pending event *)
(* with the smallest timestamp and, among events with equal timestamps,    *)
(* the one scheduled first; peek_time returns that timestamp without       *)
(* removing the event.                                                     *)
(***************************************************************************)
NextEventIsEarliest ==
    /\ CounterIsPosition
    /\ popped.call = "next_event"
         => IF popped.found = {}
            THEN popped.value = None /\ sch.event_queue = {}
            ELSE \E x \in popped.found :
                   /\ ScheduledFirst(x, popped.found)
                   /\ popped.value = Some([time |-> x.time, item |-> x.item])
                   /\ sch.event_queue = popped.found \ {x}
    /\ popped.call = "peek_time"
         => /\ sch.event_queue = popped.found
            /\ IF popped.found = {} THEN popped.value = None
               ELSE \E x \in popped.found :
                      /\ ScheduledFirst(x, popped.found)
                      /\ popped.value = Some(x.time)

\* next_event found two events of the smallest timestamp and one of a later
\* timestamp scheduled before both, and returned the first of the two
NextEventWitness ==
    /\ popped.call = "next_event"
    /\ \E x, y, z \in popped.found :
         /\ x.time = y.time /\ x.seq < y.seq /\ x.item # y.item
         /\ z.seq < x.seq /\ z.time > x.time
         /\ popped.value = Some([time |-> x.time, item |-> x.item])
         /\ sch.event_queue = popped.found \ {x}

\* dictionary d restricted to the keys of views other than view_number
OtherViews(d, view_number) ==
    [k \in {x \in DOMAIN d : x[1] # view_number} |-> d[k]]

\* the last call was clear_view(v): no entry of view v is left and the
\* entries of every other view are the ones the call found
ClearedOnlyView ==
    (returned # << >> /\ returned[1].call = "clear_view")
      => /\ \A k \in DOMAIN vc.votes \cup DOMAIN vc.formed_qcs :
              k[1] # returned[1].view_number
         /\ vc.votes = OtherViews(returned[1].found.votes,
                                  returned[1].view_number)
         /\ vc.formed_qcs = OtherViews(returned[1].found.formed_qcs,
                                       returned[1].view_number)
         /\ vc.quorum_size = returned[1].found.quorum_size

\* the last call was add_vote(vote): the entries of every view other than
\* the vote's are the ones the call found, and a QC is returned only when
\* the votes of the vote's own key reach the quorum
CountedByView ==
    (returned # << >> /\ returned[1].call = "add_vote")
      => /\ OtherViews(vc.votes, returned[1].vote.view_number)
              = OtherViews(returned[1].found.votes,
                           returned[1].vote.view_number)
         /\ OtherViews(vc.formed_qcs, returned[1].vote.view_number)
              = OtherViews(returned[1].found.formed_qcs,
                           returned[1].vote.view_number)
         /\ returned[1].qc # None
              => /\ Len(vc.votes[VoteKey(returned[1].vote)]) = vc.quorum_size
                 /\ \A i \in 1 .. vc.quorum_size :
                      VoteKey(vc.votes[VoteKey(returned[1].vote)][i])
                        = VoteKey(returned[1].vote)

(***************************************************************************)
(* C40.  clear_view(v) removes all collected votes and formed-QC records   *)
(* whose view is v and leaves every entry of every other view unchanged;   *)
(* votes for different views are counted separately.                       *)
(***************************************************************************)
ClearViewFrame == ClearedOnlyView /\ CountedByView

\* clear_view(1) found a QC record and votes of view 1 and votes of view 2,
\* and the votes of view 2 are still there
ClearViewWitness ==
    /\ returned # << >>
    /\ returned[1].call = "clear_view"
    /\ returned[1].view_number = 1
    /\ \E k \in DOMAIN returned[1].found.formed_qcs : k[1] = 1
    /\ \E k \in DOMAIN returned[1].found.votes :
         k[1] = 1 /\ k \notin DOMAIN returned[1].found.formed_qcs
                  /\ returned[1].found.votes[k] # << >>
    /\ \E k \in DOMAIN vc.votes : k[1] = 2 /\ Len(vc.votes[k]) = 2

====
